---- MODULE Spec2Model ----
(***************************************************************************)
(* Model of adapter/internal/oasparser/envoyconf/routes_with_clusters.go:  *)
(* the translation of an API model (MgwSwagger) into envoy routes,         *)
(* clusters and addresses.                                                 *)
(*                                                                         *)
(* Go strings are TLA+ strings, handled with Len, SubSeq and \o.  A Go     *)
(* pointer or optional value is a sequence of length 0 (nil) or 1.         *)
(***************************************************************************)
EXTENDS Integers, Sequences, FiniteSets, TLC

Nil == <<>>

Some(x) == <<x>>

(***************************************************************************)
(* package strings                                                         *)
(***************************************************************************)
HasPrefix(s, p) == Len(s) >= Len(p) /\ SubSeq(s, 1, Len(p)) = p

HasSuffix(s, p) == Len(s) >= Len(p) /\ SubSeq(s, Len(s) - Len(p) + 1, Len(s)) = p

TrimSuffix(s, p) == IF HasSuffix(s, p) THEN SubSeq(s, 1, Len(s) - Len(p)) ELSE s

Contains(s, sub) == \E i \in 1..(Len(s) - Len(sub) + 1) : SubSeq(s, i, i + Len(sub) - 1) = sub

\* strings.Index for a non-empty sub: the 0-based index of the first occurrence, or -1
Index(s, sub) ==
    IF Contains(s, sub)
    THEN (CHOOSE i \in 1..(Len(s) - Len(sub) + 1) :
             /\ SubSeq(s, i, i + Len(sub) - 1) = sub
             /\ \A j \in 1..(i - 1) : SubSeq(s, j, j + Len(sub) - 1) # sub) - 1
    ELSE -1

\* strings.LastIndex for a non-empty sub
LastIndex(s, sub) ==
    IF Contains(s, sub)
    THEN (CHOOSE i \in 1..(Len(s) - Len(sub) + 1) :
             /\ SubSeq(s, i, i + Len(sub) - 1) = sub
             /\ \A j \in (i + 1)..(Len(s) - Len(sub) + 1) : SubSeq(s, j, j + Len(sub) - 1) # sub) - 1
    ELSE -1

RECURSIVE Replace(_, _, _, _)
\* strings.Replace for a non-empty old: the first n occurrences from the left,
\* all of them when n < 0
Replace(s, old, new, n) ==
    IF n = 0 \/ ~Contains(s, old) THEN s
    ELSE LET i == Index(s, old) IN
         SubSeq(s, 1, i) \o new \o Replace(SubSeq(s, i + Len(old) + 1, Len(s)), old, new, n - 1)

\* strings.Split(s, sep)[0]
SplitFirst(s, sep) == IF Contains(s, sep) THEN SubSeq(s, 1, Index(s, sep)) ELSE s

RECURSIVE RemoveSpaces(_)
\* strings.Replace(s, " ", "", -1)
RemoveSpaces(s) ==
    IF s = "" THEN ""
    ELSE IF SubSeq(s, 1, 1) = " " THEN RemoveSpaces(SubSeq(s, 2, Len(s)))
    ELSE SubSeq(s, 1, 1) \o RemoveSpaces(SubSeq(s, 2, Len(s)))

RECURSIVE TrimLeft(_)
TrimLeft(s) == IF s # "" /\ SubSeq(s, 1, 1) = " " THEN TrimLeft(SubSeq(s, 2, Len(s))) ELSE s

RECURSIVE TrimRight(_)
TrimRight(s) ==
    IF s # "" /\ SubSeq(s, Len(s), Len(s)) = " " THEN TrimRight(SubSeq(s, 1, Len(s) - 1)) ELSE s

\* strings.TrimSpace, with the space as the only white space of the alphabet
TrimSpace(s) == TrimRight(TrimLeft(s))

RECURSIVE Join(_, _)
Join(elems, sep) ==
    IF Len(elems) = 0 THEN ""
    ELSE IF Len(elems) = 1 THEN elems[1]
    ELSE elems[1] \o sep \o Join(Tail(elems), sep)

RECURSIVE Itoa(_)
\* strconv.Itoa for i >= 0
Itoa(i) == IF i < 10 THEN SubSeq("0123456789", i + 1, i + 1)
           ELSE Itoa(i \div 10) \o SubSeq("0123456789", (i % 10) + 1, (i % 10) + 1)

(***************************************************************************)
(* Name Mint                                                               *)
(***************************************************************************)
\* the resource-scoped suffix dropped: a resource-scoped name equals the API-scoped one
getClusterName_NoSuffix(epPrefix, organizationID, vHost, swaggerTitle, swaggerVersion, resourceID) ==
    TrimSpace(organizationID \o "_" \o epPrefix \o "_" \o vHost \o "_"
              \o RemoveSpaces(swaggerTitle) \o swaggerVersion)

getClusterName(epPrefix, organizationID, vHost, swaggerTitle, swaggerVersion, resourceID) ==
    IF resourceID # ""
    THEN TrimSpace(organizationID \o "_" \o epPrefix \o "_" \o vHost \o "_"
                   \o RemoveSpaces(swaggerTitle) \o swaggerVersion)
         \o "_" \o RemoveSpaces(resourceID) \o "0"
    ELSE TrimSpace(organizationID \o "_" \o epPrefix \o "_" \o vHost \o "_"
                   \o RemoveSpaces(swaggerTitle) \o swaggerVersion)

(***************************************************************************)
(* Configuration: the singletons of package config, read by the generators *)
(***************************************************************************)
VARIABLES
    conf,       \* the configuration config.ReadConfigs() returns
    logConf     \* the log configuration config.ReadLogConfigs() returns

(***************************************************************************)
(* Endpoint Compiler                                                       *)
(***************************************************************************)
httpsURLType == "https"

wssURLType == "wss"

\* Hosts that are not valid UTF-8.  The upstream TLS context carries the host as
\* its SNI (a proto3 string), so anypb.New fails on it.
InvalidUTF8Hosts == {"h\\xff"}

IsTLSEndpoint(ep) == HasPrefix(ep.URLType, httpsURLType) \/ HasPrefix(ep.URLType, wssURLType)

\* anypb.New(upstreamtlsContext) returns an error
MarshalFails(ep) == ep.Host \in InvalidUTF8Hosts

createAddress(remoteHost, port) == [Address |-> remoteHost, PortValue |-> port]

\* model.Endpoint: the URL as given and what the parser read from it
EndpointOf(urlType, host, port, basepath, serviceDiscoveryString) ==
    [Host |-> host, Port |-> port, URLType |-> urlType, Basepath |-> basepath,
     RawURL |-> urlType \o "://" \o host \o ":" \o Itoa(port) \o basepath,
     ServiceDiscoveryString |-> serviceDiscoveryString]

\* epCert of processEndpoints: the bytes stored under the endpoint's raw URL
\* if the key is found, else the bytes under "default" if that key is found,
\* else nil.  Certificates are strings of bytes.
EpCert(upstreamCerts, ep) ==
    IF ep.RawURL \in DOMAIN upstreamCerts THEN upstreamCerts[ep.RawURL]
    ELSE IF "default" \in DOMAIN upstreamCerts THEN upstreamCerts["default"]
    ELSE ""

\* The validation context createUpstreamTLSContext sets: none when
\* verification is disabled, else the trusted CA, inline or from the file
createUpstreamTLSContext(upstreamCerts, address, hTTP2BackendEnabled) ==
    [ValidationContext |->
        IF ~conf.Envoy.Upstream.TLS.DisableSslVerification
        THEN Some([TrustedCa |-> IF Len(upstreamCerts) > 0
                                 THEN [InlineBytes |-> upstreamCerts]
                                 ELSE [Filename |-> conf.Envoy.Upstream.TLS.TrustedCertPath]])
        ELSE Nil]

\* the priority raised for every endpoint type
PriorityAt_Always(epType, i) == i

\* The priority the loop of processEndpoints holds when it reaches the
\* endpoint at 0-based index i
PriorityAt(epType, i) == IF HasPrefix(epType, "failover") THEN i ELSE 0

\* The locality endpoint built for the endpoint at 1-based position k
LocalityLbEndpoint(clusterDetails, k) ==
    LET ep == clusterDetails.Endpoints[k] IN
    [Address  |-> createAddress(ep.Host, ep.Port),
     Priority |-> PriorityAt(clusterDetails.EndpointType, k - 1),
     Metadata |-> IF IsTLSEndpoint(ep) THEN Some(Itoa(k - 1)) ELSE Nil]

\* the matches numbered by their position in the list of matches
TransportSocketMatches_Renumbered(clusterDetails, upstreamCerts) ==
    LET eps == clusterDetails.Endpoints
        F[k \in 0..Len(eps)] ==
            IF k = 0 THEN <<>>
            ELSE IF IsTLSEndpoint(eps[k])
                 THEN Append(F[k - 1],
                             [Name |-> "ts" \o Itoa(Len(F[k - 1])), LbID |-> Itoa(Len(F[k - 1])),
                              TransportSocket |->
                                  createUpstreamTLSContext(EpCert(upstreamCerts, eps[k]),
                                                           createAddress(eps[k].Host, eps[k].Port),
                                                           FALSE)])
                 ELSE F[k - 1]
    IN F[Len(eps)]

\* The transport socket matches, one per TLS-bearing endpoint, in input
\* order, each with the upstream TLS context of its endpoint
TransportSocketMatches(clusterDetails, upstreamCerts) ==
    LET eps == clusterDetails.Endpoints
        F[k \in 0..Len(eps)] ==
            IF k = 0 THEN <<>>
            ELSE IF IsTLSEndpoint(eps[k])
                 THEN Append(F[k - 1],
                             [Name |-> "ts" \o Itoa(k - 1), LbID |-> Itoa(k - 1),
                              TransportSocket |->
                                  createUpstreamTLSContext(EpCert(upstreamCerts, eps[k]),
                                                           createAddress(eps[k].Host, eps[k].Port),
                                                           FALSE)])
                 ELSE F[k - 1]
    IN F[Len(eps)]

\* the base-path check skipped: every group compiles
processEndpoints_NoBasePathCheck(clusterName, clusterDetails, upstreamCerts, timeout, basePath) ==
    LET eps == clusterDetails.Endpoints
        n == Len(eps)
    IN  IF n = 0
        THEN [kind |-> "panic", err |-> "index out of range", cluster |-> Nil, addresses |-> Nil,
              registry |-> Nil]
        ELSE [kind |-> "ok", err |-> "",
              cluster |-> Some([Name |-> clusterName,
                                Endpoints |-> [k \in 1..n |-> LocalityLbEndpoint(clusterDetails, k)],
                                TransportSocketMatches |-> TransportSocketMatches(clusterDetails, upstreamCerts),
                                HealthChecks |-> n > 1]),
              addresses |-> [k \in 1..n |-> createAddress(eps[k].Host, eps[k].Port)],
              registry |-> IF eps[1].ServiceDiscoveryString # ""
                           THEN Some([clusterName |-> clusterName,
                                      serviceDiscoveryString |-> eps[1].ServiceDiscoveryString])
                           ELSE Nil]

\* Returns (cluster, addresses, err): kind "ok" with err = "", kind "error" with
\* nil cluster and nil addresses, or kind "panic" when the group is empty
\* (Endpoints[0] read after a loop that ran zero times).  registry is the entry
\* the call wrote to svcdiscovery.ClusterConsulKeyMap, if it wrote one.
processEndpoints(clusterName, clusterDetails, upstreamCerts, timeout, basePath) ==
    LET eps == clusterDetails.Endpoints
        n == Len(eps)
        mismatched == {k \in 1..n : TrimSuffix(eps[k].Basepath, "/") # basePath}
        unmarshalled == {k \in 1..n : IsTLSEndpoint(eps[k]) /\ MarshalFails(eps[k])}
        failing == mismatched \cup unmarshalled
        first == CHOOSE k \in failing : \A j \in failing : k <= j
    IN  IF failing # {}
        THEN [kind |-> "error",
              err |-> IF first \in mismatched THEN "endpoint basepath mismatched"
                      ELSE "internal Error while marshalling the upstream TLS Context",
              cluster |-> Nil, addresses |-> Nil, registry |-> Nil]
        ELSE IF n = 0
        THEN [kind |-> "panic", err |-> "index out of range", cluster |-> Nil, addresses |-> Nil,
              registry |-> Nil]
        ELSE [kind |-> "ok", err |-> "",
              cluster |-> Some([Name |-> clusterName,
                                Endpoints |-> [k \in 1..n |-> LocalityLbEndpoint(clusterDetails, k)],
                                TransportSocketMatches |-> TransportSocketMatches(clusterDetails, upstreamCerts),
                                HealthChecks |-> n > 1]),
              addresses |-> [k \in 1..n |-> createAddress(eps[k].Host, eps[k].Port)],
              registry |-> IF eps[1].ServiceDiscoveryString # ""
                           THEN Some([clusterName |-> clusterName,
                                      serviceDiscoveryString |-> eps[1].ServiceDiscoveryString])
                           ELSE Nil]

\* the registry replaced by the entry written
WithRegistry_Reset(reg, r) ==
    IF r.kind = "ok" /\ r.registry # Nil
    THEN [k \in {r.registry[1].clusterName} |-> r.registry[1].serviceDiscoveryString]
    ELSE reg

\* svcdiscovery.ClusterConsulKeyMap[clusterName] = serviceDiscoveryString, when
\* the call of processEndpoints reached that statement
WithRegistry(reg, r) ==
    IF r.kind = "ok" /\ r.registry # Nil
    THEN [k \in DOMAIN reg \cup {r.registry[1].clusterName} |->
             IF k = r.registry[1].clusterName THEN r.registry[1].serviceDiscoveryString
             ELSE reg[k]]
    ELSE reg

(***************************************************************************)
(* Interceptor Compiler                                                    *)
(***************************************************************************)
APILevelInterceptor == "api"

ResourceLevelInterceptor == "resource"

OperationLevelInterceptor == "operation"

requestInterceptClustersNamePrefix == "reqInterceptor"

responseInterceptClustersNamePrefix == "resInterceptor"

xWso2EPClustersConfigNamePrefix == "xwso2cluster"

\* model.InterceptEndpoint{}
NoInterceptEndpoint ==
    [Enable |-> FALSE, Level |-> "", ClusterName |-> "",
     EndpointCluster |-> [Endpoints |-> <<>>, EndpointType |-> "", EndpointPrefix |-> ""]]

\* mgwSwagger.GetInterceptor(vendorExtensions, extensionName, level): the
\* interceptor an extension declares (a pointer to its one endpoint), enabled
\* and tagged with the level, or the zero value
GetInterceptor(declared, level) ==
    IF declared = Nil THEN NoInterceptEndpoint
    ELSE [Enable |-> TRUE, Level |-> level, ClusterName |-> "",
          EndpointCluster |-> [Endpoints |-> <<declared[1]>>, EndpointType |-> "loadbalance",
                               EndpointPrefix |-> ""]]

\* mgwSwagger.GetOperationInterceptors(apiInterceptor, resourceInterceptor,
\* operations, isRequestFlow): per method (upper case) the operation's own
\* interceptor named by the operation id, else the resource's, else the API's;
\* a method with none enabled has no entry
GetOperationInterceptors(apiInterceptor, resourceInterceptor, operations, isRequestFlow) ==
    LET Own(op) == IF isRequestFlow THEN op.requestInterceptor ELSE op.responseInterceptor
        Pick(op) ==
            LET o == [GetInterceptor(Own(op), OperationLevelInterceptor) EXCEPT !.ClusterName = op.iD]
            IN  IF o.Enable THEN o
                ELSE IF resourceInterceptor.Enable THEN resourceInterceptor
                ELSE apiInterceptor
        enabled == {k \in 1..Len(operations) : Pick(operations[k]).Enable}
        OpOf(m) == operations[CHOOSE k \in enabled :
                                 /\ operations[k].method = m
                                 /\ \A j \in enabled : operations[j].method = m => j <= k]
    IN  [m \in {operations[k].method : k \in enabled} |-> Pick(OpOf(m))]

CreateLuaCluster(interceptorCerts, endpoint) ==
    processEndpoints(endpoint.ClusterName, endpoint.EndpointCluster, interceptorCerts, 0,
                     endpoint.EndpointCluster.Endpoints[1].Basepath)

\* The keys of the tracing properties and the name of the tracing cluster;
\* the package names them by constants
tracerHost == "host"

tracerPort == "port"

tracerEndpoint == "endpoint"

tracingClusterName == "tracing_cluster"

\* m[key] of a Go map of strings: the zero value for a missing key
Property(m, key) == IF key \in DOMAIN m THEN m[key] ELSE ""

DigitsOnly(s) ==
    /\ Len(s) > 0
    /\ \A k \in 1..Len(s) : \E d \in 0..9 : SubSeq(s, k, k) = Itoa(d)

DigitOf(c) == CHOOSE d \in 0..9 : Itoa(d) = c

RECURSIVE Significant(_)
\* The digits without their leading zeros
Significant(s) ==
    IF Len(s) > 1 /\ SubSeq(s, 1, 1) = "0" THEN Significant(SubSeq(s, 2, Len(s))) ELSE s

RECURSIVE DigitsLeq(_, _)
\* a <= b for two strings of digits of one length
DigitsLeq(a, b) ==
    IF Len(a) = 0 THEN TRUE
    ELSE IF DigitOf(SubSeq(a, 1, 1)) # DigitOf(SubSeq(b, 1, 1))
         THEN DigitOf(SubSeq(a, 1, 1)) < DigitOf(SubSeq(b, 1, 1))
         ELSE DigitsLeq(SubSeq(a, 2, Len(a)), SubSeq(b, 2, Len(b)))

RECURSIVE DigitsValue(_)
DigitsValue(s) ==
    IF Len(s) = 0 THEN 0
    ELSE DigitsValue(SubSeq(s, 1, Len(s) - 1)) * 10 + DigitOf(SubSeq(s, Len(s), Len(s)))

\* strconv.ParseUint(s, 10, 32): digits only, no sign, at most 4294967295.
\* The value is computed for numbers up to 2147483647.
ParseUint(s) ==
    IF /\ DigitsOnly(s)
       /\ \/ Len(Significant(s)) < 10
          \/ Len(Significant(s)) = 10 /\ DigitsLeq(Significant(s), "4294967295")
    THEN [err |-> FALSE, value |-> DigitsValue(Significant(s))]
    ELSE [err |-> TRUE, value |-> 0]

CreateTracingCluster(tracingConf) ==
    LET epHost == Property(tracingConf.Tracing.ConfigProperties, tracerHost)
        epPath == Property(tracingConf.Tracing.ConfigProperties, tracerEndpoint)
        port == ParseUint(Property(tracingConf.Tracing.ConfigProperties, tracerPort))
        epTimeout == tracingConf.Envoy.ClusterTimeoutInSeconds
        epCluster == [Endpoints |-> <<[Host |-> epHost, Port |-> port.value, URLType |-> "http",
                                       Basepath |-> epPath, RawURL |-> "",
                                       ServiceDiscoveryString |-> ""]>>,
                      EndpointType |-> "", EndpointPrefix |-> "", Config |-> Nil]
        Failed(err) == [kind |-> "error", err |-> err, cluster |-> Nil, addresses |-> Nil,
                        registry |-> Nil]
    IN  IF Len(epHost) <= 0 THEN Failed("invalid host provided for tracing endpoint")
        ELSE IF Len(epPath) <= 0
        THEN Failed("invalid endpoint path provided for tracing endpoint")
        ELSE IF port.err THEN Failed("invalid port provided for tracing endpoint")
        ELSE processEndpoints(tracingClusterName, epCluster, <<>>, epTimeout, epPath)

(***************************************************************************)
(* Route Compiler                                                          *)
(***************************************************************************)
WS == "WS"

HTTP == "HTTP"

httpMethodHeader == ":method"

clusterHeaderName == "x-wso2-cluster-header"

getDefaultResourceMethods(apiType) == IF apiType = WS THEN <<"GET">> ELSE <<>>

\* resource.GetMethodList(): the methods of the resource's operations, in order
GetMethodList(resource) == [k \in 1..Len(resource.methods) |-> resource.methods[k].method]

genRouteCreateParams(swagger, resource, vHost, endpointBasePath, prodClusterName, sandClusterName, requestInterceptor, responseInterceptor, organizationID, isSandbox) ==
    [organizationID      |-> organizationID,
     title               |-> swagger.title,
     apiType             |-> swagger.apiType,
     version             |-> swagger.version,
     vHost               |-> vHost,
     xWSO2BasePath       |-> swagger.xWso2Basepath,
     prodClusterName     |-> prodClusterName,
     sandClusterName     |-> sandClusterName,
     endpointBasePath    |-> endpointBasePath,
     resourcePathParam   |-> IF resource # Nil THEN resource[1].path ELSE "",
     resourceMethods     |-> IF resource # Nil THEN GetMethodList(resource[1])
                             ELSE getDefaultResourceMethods(swagger.apiType),
     requestInterceptor  |-> requestInterceptor,
     responseInterceptor |-> responseInterceptor,
     rewritePath         |-> IF resource # Nil THEN resource[1].rewritePath ELSE "",
     rewriteMethod       |-> IF resource # Nil THEN resource[1].rewriteMethod ELSE FALSE,
     isDefaultVersion    |-> swagger.isDefaultVersion,
     isSandbox           |-> isSandbox,
     prodRouteConfig     |-> IF swagger.productionEndpoints # Nil
                             THEN swagger.productionEndpoints[1].Config ELSE Nil,
     sandRouteConfig     |-> IF swagger.sandboxEndpoints # Nil
                             THEN swagger.sandboxEndpoints[1].Config ELSE Nil]

pathParaRegex == "([^/]+)"

wildCardRegex == "((/(.*))*)"

trailingSlashRegex == "(/{0,1})"

endRegex == "(\\?([^/]+))?"

RECURSIVE ReplaceAllPathParams(_, _)
\* regexp.MustCompile(`{([^}]+)}`).ReplaceAllString(s, repl): a match starts at
\* a "{" whose next "}" lies at least one character further on
ReplaceAllPathParams(s, repl) ==
    IF s = "" THEN ""
    ELSE IF SubSeq(s, 1, 1) = "{" /\ Index(s, "}") >= 2
    THEN repl \o ReplaceAllPathParams(SubSeq(s, Index(s, "}") + 2, Len(s)), repl)
    ELSE SubSeq(s, 1, 1) \o ReplaceAllPathParams(SubSeq(s, 2, Len(s)), repl)

generatePathRegexSegment(resourcePath) ==
    LET resourceRegex == ReplaceAllPathParams(resourcePath, pathParaRegex) IN
    IF HasSuffix(resourceRegex, "/*") THEN TrimSuffix(resourceRegex, "/*") \o wildCardRegex
    ELSE TrimSuffix(resourceRegex, "/") \o trailingSlashRegex

\* the numbering loop leaving the parameters unnumbered
NumberPathParams_None(resourceRegex, pathParamIndex) ==
    [resourceRegex |-> resourceRegex, pathParamIndex |-> pathParamIndex]

RECURSIVE NumberPathParams(_, _)
\* The loop of generateSubstitutionString from the state (resourceRegex,
\* pathParamIndex) to its exit
NumberPathParams(resourceRegex, pathParamIndex) ==
    IF ~Contains(resourceRegex, pathParaRegex)
    THEN [resourceRegex |-> resourceRegex, pathParamIndex |-> pathParamIndex]
    ELSE NumberPathParams(Replace(resourceRegex, pathParaRegex,
                                  "\\" \o Itoa(pathParamIndex + 1), 1),
                          pathParamIndex + 1)

generateSubstitutionString(resourcePath, endpointBasepath) ==
    LET resourceRegex == NumberPathParams(generatePathRegexSegment(resourcePath), 0).resourceRegex IN
    endpointBasepath \o
        (IF HasSuffix(resourceRegex, wildCardRegex) THEN TrimSuffix(resourceRegex, wildCardRegex)
         ELSE IF HasSuffix(resourcePath, "/")
         THEN TrimSuffix(resourceRegex, trailingSlashRegex) \o "/"
         ELSE TrimSuffix(resourceRegex, trailingSlashRegex))

getFilteredBasePath(xWso2Basepath, basePath) ==
    LET modifiedBasePath == IF TrimSpace(xWso2Basepath) # "" THEN xWso2Basepath ELSE basePath IN
    TrimSuffix(IF ~HasPrefix(modifiedBasePath, "/") THEN "/" \o modifiedBasePath
               ELSE modifiedBasePath, "/")

generateRegex(fullpath) == "^" \o generatePathRegexSegment(fullpath) \o endRegex \o "$"

generateRoutePath(basePath, resourcePath) ==
    generateRegex(basePath \o SplitFirst(resourcePath, "?"))

getUpgradeConfig(apiType) == <<[UpgradeType |-> "websocket", Enabled |-> (apiType = WS)]>>

getMaxStreamDuration(apiType) ==
    IF apiType = WS THEN Some([Seconds |-> 60 * 60 * 24]) ELSE Nil

getDefaultVersionBasepath(basePath, version) ==
    LET indexOfVersionString == LastIndex(basePath, "/" \o version)
        context == Replace(basePath, "/" \o version, "", indexOfVersionString)
    IN  "(?:" \o basePath \o "|" \o context \o ")"

\* basePath of createRoute
RouteBasePath(params) ==
    IF params.isDefaultVersion
    THEN getDefaultVersionBasepath(getFilteredBasePath(params.xWSO2BasePath,
                                                       params.endpointBasePath), params.version)
    ELSE getFilteredBasePath(params.xWSO2BasePath, params.endpointBasePath)

\* Pattern and Substitution of the route action's regex rewrite
RegexRewrite(params) ==
    IF params.rewritePath # ""
    THEN [Pattern      |-> generateRoutePath(RouteBasePath(params), params.resourcePathParam),
          Substitution |-> IF params.rewritePath # "/"
                           THEN params.endpointBasePath \o params.rewritePath
                           ELSE params.endpointBasePath]
    ELSE LET resourcePath == SplitFirst(params.resourcePathParam, "?")
             resourceRegex == generatePathRegexSegment(resourcePath)
         IN  [Pattern      |-> "^" \o RouteBasePath(params) \o
                               (IF HasSuffix(resourcePath, "/*")
                                THEN TrimSuffix(resourceRegex, wildCardRegex)
                                ELSE resourceRegex),
              Substitution |-> generateSubstitutionString(resourcePath, params.endpointBasePath)]

\* the route action: a regex rewrite with the upgrade configuration when the
\* API has a base path of its own, a bare action otherwise
\* a + b of two int32 values, in two's complement
AddInt32(a, b) ==
    IF a > 0 /\ b > 0 /\ a > 2147483647 - b
    THEN (a - 2147483647) + (b - 2147483647) - 2
    ELSE IF a < 0 /\ b < 0 /\ a < (-2147483647 - 1) - b
    THEN (a + 2147483647) + (b + 2147483647) + 2
    ELSE a + b

RECURSIVE MulInt32(_, _)
\* a * n of an int32 value and a constant n >= 0, in two's complement
MulInt32(a, n) ==
    IF n = 0 THEN 0
    ELSE LET half == MulInt32(a, n \div 2)
             double == AddInt32(half, half)
         IN  IF n % 2 = 1 THEN AddInt32(double, a) ELSE double

\* The retry policy of the route: set when the production or the sandbox
\* endpoint config declares a retry config
RetryPolicy(params) ==
    IF \/ (params.prodRouteConfig # Nil /\ params.prodRouteConfig[1].RetryConfig # Nil)
       \/ (params.sandRouteConfig # Nil /\ params.sandRouteConfig[1].RetryConfig # Nil)
    THEN LET retryConfig == conf.Envoy.Upstream.Retry
         IN  Some([RetryOn      |-> "retriable-status-codes",
                   NumRetries   |-> 0,
                   RetryBackOff |->
                       [BaseInterval |->
                           [Seconds |-> 0,
                            Nanos   |-> MulInt32(retryConfig.BaseIntervalInMillis, 1000)]]])
    ELSE Nil

RouteAction(params) ==
    IF params.xWSO2BasePath # ""
    THEN [RegexRewrite      |-> Some(RegexRewrite(params)),
          UpgradeConfigs    |-> getUpgradeConfig(params.apiType),
          MaxStreamDuration |-> getMaxStreamDuration(params.apiType),
          RetryPolicy       |-> RetryPolicy(params)]
    ELSE [RegexRewrite |-> Nil, UpgradeConfigs |-> <<>>, MaxStreamDuration |-> Nil,
          RetryPolicy |-> RetryPolicy(params)]

\* OPTIONS appended without looking for it among the methods
MethodRegex_OptionsAlways(resourceMethods) ==
    "^(" \o Join(resourceMethods, "|") \o "|OPTIONS" \o ")$"

\* the regex of the :method matcher
MethodRegex(resourceMethods) ==
    LET methodRegex == Join(resourceMethods, "|") IN
    "^(" \o (IF ~Contains(methodRegex, "OPTIONS") THEN methodRegex \o "|OPTIONS" ELSE methodRegex)
         \o ")$"

MethodMatcher(params) ==
    [Name |-> httpMethodHeader, MatchPattern |-> "safe_regex",
     Value |-> MethodRegex(params.resourceMethods)]

ClusterHeaderMatcher(params) ==
    [Name |-> clusterHeaderName, MatchPattern |-> "exact", Value |-> params.sandClusterName]

\* match.Headers
RouteHeaders(params) ==
    IF ~params.rewriteMethod
    THEN IF params.isSandbox THEN <<MethodMatcher(params), ClusterHeaderMatcher(params)>>
         ELSE <<MethodMatcher(params)>>
    ELSE <<>>

\* the ext_authz per-route context extensions
ContextExtensions(params) ==
    [path            |-> params.resourcePathParam,
     vHost           |-> params.vHost,
     basePath        |-> IF params.xWSO2BasePath # "" THEN params.xWSO2BasePath
                         ELSE params.endpointBasePath,
     method          |-> Join(params.resourceMethods, " "),
     version         |-> params.version,
     name            |-> params.title,
     prodClusterName |-> params.prodClusterName,
     sandClusterName |-> params.sandClusterName]

\* getInlineLuaScript: the callout cluster of every method of a flow
InterceptorFlow(interceptors) ==
    [m \in DOMAIN interceptors |-> [ClusterName |-> interceptors[m].ClusterName]]

\* getInlineLuaScript(requestInterceptor, responseInterceptor, requestContext):
\* the values the interceptor template is rendered with, and the two flags
\* interceptor.GetTemplate selects the template by
getInlineLuaScript(requestInterceptor, responseInterceptor, requestContext) ==
    [template              |-> "interceptor",
     Context               |-> requestContext,
     IsRequestFlowEnabled  |-> DOMAIN requestInterceptor # {},
     IsResponseFlowEnabled |-> DOMAIN responseInterceptor # {},
     RequestFlow           |-> InterceptorFlow(requestInterceptor),
     ResponseFlow          |-> InterceptorFlow(responseInterceptor)]

\* the response interceptors left out of the test for interceptors
LuaPerRoute_RequestOnly(params) ==
    IF DOMAIN params.requestInterceptor = {}
    THEN IF logConf.WireLogs.Enable
         THEN [Override |-> "SourceCode",
               InlineString |-> [template |-> "wireLog", LogConfig |-> logConf.WireLogs]]
         ELSE [Override |-> "Disabled"]
    ELSE [Override |-> "SourceCode",
          InlineString |-> getInlineLuaScript(params.requestInterceptor,
                                              params.responseInterceptor,
                                              ContextExtensions(params))]

\* luaPerFilterConfig of createRoute: the filter disabled, or the inline
\* source of the wire log script or of the interceptor script.  The
\* invocation context is read from the context extensions.
LuaPerRoute(params) ==
    IF DOMAIN params.requestInterceptor = {} /\ DOMAIN params.responseInterceptor = {}
    THEN IF logConf.WireLogs.Enable
         THEN [Override |-> "SourceCode",
               InlineString |-> [template |-> "wireLog", LogConfig |-> logConf.WireLogs]]
         ELSE [Override |-> "Disabled"]
    ELSE [Override |-> "SourceCode",
          InlineString |-> getInlineLuaScript(params.requestInterceptor,
                                              params.responseInterceptor,
                                              ContextExtensions(params))]

createRoute(params) ==
    [Name              |-> params.xWSO2BasePath,
     Regex             |-> generateRoutePath(RouteBasePath(params), params.resourcePathParam),
     Headers           |-> RouteHeaders(params),
     Action            |-> RouteAction(params),
     ContextExtensions |-> ContextExtensions(params),
     Lua               |-> LuaPerRoute(params),
     RequestFlow       |-> InterceptorFlow(params.requestInterceptor),
     ResponseFlow      |-> InterceptorFlow(params.responseInterceptor)]

(***************************************************************************)
(* State                                                                   *)
(***************************************************************************)
VARIABLES
    nameArgs,   \* the two argument tuples handed to getClusterName
    names,      \* the two names returned; <<>> before the calls
    peArgs,     \* the arguments of a call of processEndpoints; <<>> when there is none
    peResult,   \* what that call returned; <<>> before it returns
    routeArgs,  \* the routeCreateParams of a call of createRoute; <<>> when there is none
    routeResult,\* the route that call returned; <<>> before it returns
    \* CreateRoutesWithClusters: its argument, its position and its locals
    mgwSwagger,                 \* the API model; <<>> when no translation runs
    pc,                         \* the statement the translation is at
    routes,
    routeParams,                \* routeParams[i]: the parameters routes[i] was created from
    clusters,
    endpoints,
    apiRequestInterceptor,
    apiResponseInterceptor,
    apiLevelBasePathProd,
    apiLevelBasePathSand,
    strictBasePath,
    apiLevelClusterNameProd,
    apiLevelClusterNameSand,
    pendingEps,                 \* the names of xWso2Endpoints the range loop has not visited
    resIdx,                     \* the 1-based index of the resource the loop is at
    resourceRequestInterceptor,
    resourceResponseInterceptor,
    clusterNameProd,
    clusterNameSand,
    resourceBasePath,
    resourceBasePathSand,
    isResourceBasePathSandAvailable,
    operationalReqInterceptors,
    operationalRespInterceptorVal,
    pendingOps,                 \* the operation-level entries the range loop has not visited
    firstRun,                   \* what an earlier translation of the same model returned, if any
    ClusterConsulKeyMap,        \* svcdiscovery.ClusterConsulKeyMap: cluster name -> consul key
    registryMutex,              \* the translator thread that holds the registry mutex, or 0
    threads                     \* translator threads: position, arguments, calls made

nameVars == <<nameArgs, names>>

peVars == <<peArgs, peResult>>

rtVars == <<routeArgs, routeResult>>

thVars == <<registryMutex, threads>>

cfgVars == <<conf, logConf>>

pureVars == <<nameVars, peVars, rtVars, thVars, cfgVars>>

outVars == <<routes, routeParams, clusters, endpoints, ClusterConsulKeyMap>>

apiVars ==
    <<apiRequestInterceptor, apiResponseInterceptor, apiLevelBasePathProd, apiLevelBasePathSand,
      strictBasePath, apiLevelClusterNameProd, apiLevelClusterNameSand, pendingEps>>

resVars ==
    <<resourceRequestInterceptor, resourceResponseInterceptor, clusterNameProd, clusterNameSand,
      resourceBasePath, resourceBasePathSand, isResourceBasePathSandAvailable,
      operationalReqInterceptors, operationalRespInterceptorVal, pendingOps>>

trVars == <<mgwSwagger, pc, resIdx, outVars, apiVars, resVars, firstRun>>

vars == <<pureVars, trVars>>

(***************************************************************************)
(* getClusterName applied to pairs of argument tuples                      *)
(***************************************************************************)
Organizations == {"a", "a_b", " a"}

EndpointPrefixes == {"p", "q", "b_p"}

VHosts == {"h"}

Titles == {"t", "t 1", "t1"}

Versions == {"v", "1v", "v_r0"}

ResourceIDs == {"", " ", "r", "r 1", "r1"}

NameTuples ==
    [epPrefix : EndpointPrefixes, organizationID : Organizations, vHost : VHosts,
     swaggerTitle : Titles, swaggerVersion : Versions, resourceID : ResourceIDs]

NameOf(a) ==
    getClusterName(a.epPrefix, a.organizationID, a.vHost, a.swaggerTitle, a.swaggerVersion,
                   a.resourceID)

\* The fields of the configuration the generators read
ConfigOf(disableSslVerification, trustedCertPath, baseIntervalInMillis) ==
    [Envoy |-> [ClusterTimeoutInSeconds |-> 20,
                Upstream |->
                    [TLS   |-> [DisableSslVerification |-> disableSslVerification,
                                TrustedCertPath |-> trustedCertPath],
                     Retry |-> [BaseIntervalInMillis |-> baseIntervalInMillis]]],
     Tracing |-> [ConfigProperties |-> <<>>]]

LogConfigOf(enable) == [WireLogs |-> [Enable |-> enable]]

\* A configuration that verifies certificates against a trust store file and
\* keeps wire logs off: the one of the runs that do not vary it
ConfigPlain ==
    /\ conf = ConfigOf(FALSE, "/truststore/ca.pem", 25)
    /\ logConf = LogConfigOf(FALSE)

NameIdle == nameArgs = <<>> /\ names = <<>>

PEIdle == peArgs = <<>> /\ peResult = <<>>

RouteIdle == routeArgs = <<>> /\ routeResult = <<>>

ThreadsIdle == registryMutex = 0 /\ threads = <<>>

\* The locals of one iteration of the resource loop, as declared at its top
ResourceLocalsFresh ==
    /\ resourceRequestInterceptor = NoInterceptEndpoint
    /\ resourceResponseInterceptor = NoInterceptEndpoint
    /\ clusterNameProd = ""
    /\ clusterNameSand = ""
    /\ resourceBasePath = ""
    /\ resourceBasePathSand = ""
    /\ isResourceBasePathSandAvailable = FALSE
    /\ operationalReqInterceptors = <<>>
    /\ operationalRespInterceptorVal = <<>>
    /\ pendingOps = {}

\* The locals of CreateRoutesWithClusters as declared at its top
TranslatorLocalsFresh ==
    /\ routes = <<>>
    /\ routeParams = <<>>
    /\ clusters = <<>>
    /\ endpoints = <<>>
    /\ apiRequestInterceptor = NoInterceptEndpoint
    /\ apiResponseInterceptor = NoInterceptEndpoint
    /\ apiLevelBasePathProd = ""
    /\ apiLevelBasePathSand = ""
    /\ strictBasePath = FALSE
    /\ apiLevelClusterNameProd = ""
    /\ apiLevelClusterNameSand = ""
    /\ pendingEps = {}
    /\ resIdx = 0
    /\ ResourceLocalsFresh

\* No translation under way and nothing registered for service discovery
TranslatorIdle ==
    /\ mgwSwagger = <<>> /\ pc = "idle" /\ TranslatorLocalsFresh /\ firstRun = Nil
    /\ ClusterConsulKeyMap = <<>>

InitName ==
    /\ nameArgs \in NameTuples \X NameTuples
    /\ names = <<>>
    /\ PEIdle
    /\ RouteIdle
    /\ ThreadsIdle
    /\ TranslatorIdle
    /\ ConfigPlain

MintNames ==
    /\ nameArgs # <<>>
    /\ names = <<>>
    /\ names' = <<NameOf(nameArgs[1]), NameOf(nameArgs[2])>>
    /\ UNCHANGED <<cfgVars, nameArgs, peVars, rtVars, thVars, trVars>>

NextName == MintNames

SpecName == InitName /\ [][NextName]_vars

(***************************************************************************)
(* processEndpoints applied to endpoint groups                             *)
(***************************************************************************)
MaxEndpoints == 2

PEBasePaths == {"", "/a", "/a/", "/b"}

PEEndpoints ==
    {EndpointOf(urlType, host, 80, basepath, sds) :
        urlType \in {"http", "https"}, host \in {"h1"} \cup InvalidUTF8Hosts,
        basepath \in PEBasePaths, sds \in {"", "consul(h1)"}}

SeqsUpTo(S, n) == UNION {[1..k -> S] : k \in 0..n}

PEGroups ==
    [Endpoints : SeqsUpTo(PEEndpoints, MaxEndpoints),
     EndpointType : {"loadbalance", "failover", "failover_strict"},
     EndpointPrefix : {"clusterProd"}]

\* Endpoints of every scheme behind one host, for the TLS settings
TLSEndpoints ==
    {EndpointOf(urlType, "h1", 443, "/a", "") : urlType \in {"http", "https", "ws", "wss"}}

TLSGroups ==
    [Endpoints : SeqsUpTo(TLSEndpoints, MaxEndpoints) \ {<<>>},
     EndpointType : {"loadbalance"}, EndpointPrefix : {"clusterProd"}]

\* Certificate maps: the https endpoint's raw URL and "default", each absent,
\* present without bytes, or present with bytes
CertMaps ==
    {[key \in keys |-> IF key = "default" THEN defaultCert ELSE rawCert] :
        keys \in SUBSET {"https://h1:443/a", "default"},
        rawCert \in {"", "cert(h1)"}, defaultCert \in {"", "cert(default)"}}

InitPE ==
    /\ \/ /\ peArgs \in [clusterName : {"c"}, clusterDetails : PEGroups,
                          basePath : PEBasePaths, upstreamCerts : {<<>>}]
          /\ ConfigPlain
       \/ /\ peArgs \in [clusterName : {"c"}, clusterDetails : TLSGroups,
                          basePath : {"/a"}, upstreamCerts : CertMaps]
          /\ conf \in {ConfigOf(disable, "/truststore/ca.pem", 25) : disable \in BOOLEAN}
          /\ logConf = LogConfigOf(FALSE)
    /\ peResult = <<>>
    /\ NameIdle
    /\ RouteIdle
    /\ ThreadsIdle
    /\ TranslatorIdle

CallProcessEndpoints ==
    /\ peArgs # <<>>
    /\ peResult = <<>>
    /\ LET r == processEndpoints(peArgs.clusterName, peArgs.clusterDetails, peArgs.upstreamCerts, 0,
                                 peArgs.basePath)
       IN  /\ peResult' = Some(r)
           /\ ClusterConsulKeyMap' = WithRegistry(ClusterConsulKeyMap, r)
    /\ UNCHANGED <<cfgVars, peArgs, nameVars, rtVars, thVars, mgwSwagger, pc, resIdx, routes, routeParams,
                   clusters, endpoints, apiVars, resVars, firstRun>>

NextPE == CallProcessEndpoints

SpecPE == InitPE /\ [][NextPE]_vars

(***************************************************************************)
(* CreateLuaCluster and CreateTracingCluster called on their own           *)
(***************************************************************************)

\* Interceptor endpoints: one endpoint, plain or TLS, on base paths with and
\* without trailing slashes
LuaEndpoints ==
    {[GetInterceptor(Some(EndpointOf(urlType, host, 9081, basepath, "")), level)
        EXCEPT !.ClusterName = "interceptCluster"] :
        urlType \in {"http", "https"}, host \in {"h1"} \cup InvalidUTF8Hosts,
        basepath \in {"", "/", "/a", "/a/", "/a//"},
        level \in {APILevelInterceptor, ResourceLevelInterceptor}}

\* Tracing properties: each key missing, empty or set
TracingProperties ==
    {[key \in keys |-> IF key = tracerHost THEN host
                       ELSE IF key = tracerEndpoint THEN path ELSE port] :
        keys \in {{tracerHost, tracerEndpoint, tracerPort}, {tracerHost, tracerEndpoint},
                   {tracerEndpoint, tracerPort}, {tracerHost, tracerPort}},
        host \in {"", "zipkin"},
        path \in {"", "/", "/api/v2/spans", "/api/v2/spans/"},
        port \in {"", "9411", "0", "0080", "-1", "+80", "94x1", "9 411", "2147483647",
                   "4294967296", "99999999999"}}

InitCluster ==
    /\ \/ /\ peArgs \in [call : {"CreateLuaCluster"}, interceptorCerts : {<<>>},
                          endpoint : LuaEndpoints]
          /\ ConfigPlain
       \/ /\ peArgs = [call |-> "CreateTracingCluster"]
          /\ conf \in {[ConfigOf(FALSE, "/truststore/ca.pem", 25) EXCEPT
                            !.Tracing.ConfigProperties = properties] :
                          properties \in TracingProperties}
          /\ logConf = LogConfigOf(FALSE)
    /\ peResult = <<>>
    /\ NameIdle
    /\ RouteIdle
    /\ ThreadsIdle
    /\ TranslatorIdle

CallCreateLuaCluster ==
    /\ peArgs # <<>>
    /\ peArgs.call = "CreateLuaCluster"
    /\ peResult = <<>>
    /\ LET r == CreateLuaCluster(peArgs.interceptorCerts, peArgs.endpoint)
       IN  /\ peResult' = Some(r)
           /\ ClusterConsulKeyMap' = WithRegistry(ClusterConsulKeyMap, r)
    /\ UNCHANGED <<cfgVars, peArgs, nameVars, rtVars, thVars, mgwSwagger, pc, resIdx, routes, routeParams,
                   clusters, endpoints, apiVars, resVars, firstRun>>

CallCreateTracingCluster ==
    /\ peArgs # <<>>
    /\ peArgs.call = "CreateTracingCluster"
    /\ peResult = <<>>
    /\ LET r == CreateTracingCluster(conf)
       IN  /\ peResult' = Some(r)
           /\ ClusterConsulKeyMap' = WithRegistry(ClusterConsulKeyMap, r)
    /\ UNCHANGED <<cfgVars, peArgs, nameVars, rtVars, thVars, mgwSwagger, pc, resIdx, routes, routeParams,
                   clusters, endpoints, apiVars, resVars, firstRun>>

NextCluster == CallCreateLuaCluster \/ CallCreateTracingCluster

SpecCluster == InitCluster /\ [][NextCluster]_vars

(***************************************************************************)
(* API Translator: CreateRoutesWithClusters(mgwSwagger, upstreamCerts,     *)
(* interceptorCerts, vHost, organizationID)                                *)
(***************************************************************************)
vHost == "gw"

organizationID == "o"

upstreamCerts == <<>>

interceptorCerts == <<>>

timeout == 0

apiTitle == mgwSwagger.title

apiVersion == mgwSwagger.version

resource == mgwSwagger.resources[resIdx]

\* x != nil && len(x.Endpoints) > 0
Available(group) == group # Nil /\ Len(group[1].Endpoints) > 0

\* clusters = append(clusters, cluster) when the compile returned no error
WithCluster(cs, r) == IF r.kind = "ok" THEN Append(cs, r.cluster[1]) ELSE cs

\* the addresses put before the ones already returned
WithAddresses_Prepended(es, r) == IF r.kind = "ok" THEN r.addresses \o es ELSE es

\* endpoints = append(endpoints, address...) when the compile returned no error
WithAddresses(es, r) == IF r.kind = "ok" THEN es \o r.addresses ELSE es

\* the loop left after its first iteration
AtResource_FirstOnly(i, loop) == IF i > 1 THEN "done" ELSE loop

\* The statement after the resource at index i - 1 is done
AtResource(i, loop) == IF i > Len(mgwSwagger.resources) THEN "done" ELSE loop

ApiLevelProd ==
    /\ pc = "apiLevelProd"
    /\ IF Available(mgwSwagger.productionEndpoints)
       THEN LET apiLevelEndpointProd == mgwSwagger.productionEndpoints[1]
                basePath == TrimSuffix(apiLevelEndpointProd.Endpoints[1].Basepath, "/")
                name == getClusterName(apiLevelEndpointProd.EndpointPrefix, organizationID,
                                       vHost, apiTitle, apiVersion, "")
                compiles == ~Contains(apiLevelEndpointProd.EndpointPrefix,
                                      xWso2EPClustersConfigNamePrefix)
                r == processEndpoints(name, apiLevelEndpointProd, upstreamCerts, timeout,
                                      basePath)
            IN  /\ apiLevelBasePathProd' = basePath
                /\ apiLevelClusterNameProd' = IF compiles /\ r.err # "" THEN "" ELSE name
                /\ clusters' = IF compiles THEN WithCluster(clusters, r) ELSE clusters
                /\ endpoints' = IF compiles THEN WithAddresses(endpoints, r) ELSE endpoints
                /\ ClusterConsulKeyMap' =
                       IF compiles THEN WithRegistry(ClusterConsulKeyMap, r) ELSE ClusterConsulKeyMap
       ELSE UNCHANGED <<apiLevelBasePathProd, apiLevelClusterNameProd, clusters, endpoints,
                        ClusterConsulKeyMap>>
    /\ pc' = "apiLevelSand"
    /\ UNCHANGED <<mgwSwagger, resIdx, routes, routeParams, apiRequestInterceptor,
                   apiResponseInterceptor, apiLevelBasePathSand, strictBasePath,
                   apiLevelClusterNameSand, pendingEps, resVars, pureVars, firstRun>>

ApiLevelSand ==
    /\ pc = "apiLevelSand"
    /\ IF Available(mgwSwagger.sandboxEndpoints)
       THEN LET apiLevelEndpointSand == mgwSwagger.sandboxEndpoints[1]
                sandBasePath == TrimSuffix(apiLevelEndpointSand.Endpoints[1].Basepath, "/")
                noProd == apiLevelBasePathProd = "" /\ apiLevelClusterNameProd = ""
                differs ==
                    /\ ~noProd
                    /\ TrimSuffix(mgwSwagger.productionEndpoints[1].Endpoints[1].Basepath, "/")
                         # sandBasePath
                selectedBasePathSand ==
                    IF noProd \/ differs THEN sandBasePath ELSE apiLevelBasePathProd
                name == getClusterName(apiLevelEndpointSand.EndpointPrefix, organizationID,
                                       vHost, apiTitle, apiVersion, "")
                compiles == ~Contains(apiLevelEndpointSand.EndpointPrefix,
                                      xWso2EPClustersConfigNamePrefix)
                r == processEndpoints(name, apiLevelEndpointSand, upstreamCerts, timeout,
                                      selectedBasePathSand)
            IN  /\ apiLevelBasePathProd' = IF noProd THEN sandBasePath ELSE apiLevelBasePathProd
                /\ apiLevelBasePathSand' = IF differs THEN sandBasePath ELSE apiLevelBasePathSand
                /\ apiLevelClusterNameSand' = IF compiles /\ r.err # "" THEN "" ELSE name
                /\ clusters' = IF compiles THEN WithCluster(clusters, r) ELSE clusters
                /\ endpoints' = IF compiles THEN WithAddresses(endpoints, r) ELSE endpoints
                /\ ClusterConsulKeyMap' =
                       IF compiles THEN WithRegistry(ClusterConsulKeyMap, r) ELSE ClusterConsulKeyMap
       ELSE UNCHANGED <<apiLevelBasePathProd, apiLevelBasePathSand, apiLevelClusterNameSand,
                        clusters, endpoints, ClusterConsulKeyMap>>
    /\ pendingEps' = DOMAIN mgwSwagger.xWso2Endpoints
    /\ pc' = IF pendingEps' = {} THEN "apiRequestInterceptor" ELSE "xWso2Endpoints"
    /\ UNCHANGED <<mgwSwagger, resIdx, routes, routeParams, apiRequestInterceptor,
                   apiResponseInterceptor, strictBasePath, apiLevelClusterNameProd, resVars,
                   pureVars, firstRun>>

\* One iteration of the range over the xWso2Endpoints map: Go visits the
\* entries in an order of its choosing.
XWso2Endpoint ==
    /\ pc = "xWso2Endpoints"
    /\ \E epName \in pendingEps :
        LET endpointCluster == mgwSwagger.xWso2Endpoints[epName]
            noBase == apiLevelBasePathProd = "" /\ apiLevelClusterNameProd = ""
            basePath == IF noBase THEN TrimSuffix(endpointCluster.Endpoints[1].Basepath, "/")
                        ELSE apiLevelBasePathProd
            epClusterName == getClusterName(endpointCluster.EndpointPrefix, organizationID,
                                            vHost, apiTitle, apiVersion, "")
            r == processEndpoints(epClusterName, endpointCluster, upstreamCerts, timeout,
                                  basePath)
        IN  IF Len(endpointCluster.Endpoints) = 0
            THEN \* Endpoints[0] of an empty group: index out of range
                 /\ pc' = "panic"
                 /\ UNCHANGED <<apiLevelBasePathProd, strictBasePath, clusters, endpoints,
                                ClusterConsulKeyMap,
                                pendingEps>>
            ELSE /\ apiLevelBasePathProd' = basePath
                 /\ strictBasePath' = (strictBasePath \/ r.err = "")
                 /\ clusters' = WithCluster(clusters, r)
                 /\ endpoints' = WithAddresses(endpoints, r)
                 /\ ClusterConsulKeyMap' = WithRegistry(ClusterConsulKeyMap, r)
                 /\ pendingEps' = pendingEps \ {epName}
                 /\ pc' = IF pendingEps' = {} THEN "apiRequestInterceptor" ELSE pc
    /\ UNCHANGED <<mgwSwagger, resIdx, routes, routeParams, apiRequestInterceptor,
                   apiResponseInterceptor, apiLevelBasePathSand, apiLevelClusterNameProd,
                   apiLevelClusterNameSand, resVars, pureVars, firstRun>>

ApiRequestInterceptor ==
    /\ pc = "apiRequestInterceptor"
    /\ LET found == GetInterceptor(mgwSwagger.requestInterceptor, APILevelInterceptor)
           named == [found EXCEPT !.ClusterName =
                        getClusterName(requestInterceptClustersNamePrefix, organizationID,
                                       vHost, apiTitle, apiVersion, "")]
           r == CreateLuaCluster(interceptorCerts, named)
       IN  IF found.Enable
           THEN /\ apiRequestInterceptor' = IF r.err # "" THEN NoInterceptEndpoint ELSE named
                /\ clusters' = WithCluster(clusters, r)
                /\ endpoints' = WithAddresses(endpoints, r)
                /\ ClusterConsulKeyMap' = WithRegistry(ClusterConsulKeyMap, r)
           ELSE /\ apiRequestInterceptor' = found
                /\ UNCHANGED <<clusters, endpoints, ClusterConsulKeyMap>>
    /\ pc' = "apiResponseInterceptor"
    /\ UNCHANGED <<mgwSwagger, resIdx, routes, routeParams, apiResponseInterceptor,
                   apiLevelBasePathProd, apiLevelBasePathSand, strictBasePath,
                   apiLevelClusterNameProd, apiLevelClusterNameSand, pendingEps, resVars,
                   pureVars, firstRun>>

ApiResponseInterceptor ==
    /\ pc = "apiResponseInterceptor"
    /\ LET found == GetInterceptor(mgwSwagger.responseInterceptor, APILevelInterceptor)
           named == [found EXCEPT !.ClusterName =
                        getClusterName(responseInterceptClustersNamePrefix, organizationID,
                                       vHost, apiTitle, apiVersion, "")]
           r == CreateLuaCluster(interceptorCerts, named)
       IN  IF found.Enable
           THEN /\ apiResponseInterceptor' = IF r.err # "" THEN NoInterceptEndpoint ELSE named
                /\ clusters' = WithCluster(clusters, r)
                /\ endpoints' = WithAddresses(endpoints, r)
                /\ ClusterConsulKeyMap' = WithRegistry(ClusterConsulKeyMap, r)
           ELSE /\ apiResponseInterceptor' = found
                /\ UNCHANGED <<clusters, endpoints, ClusterConsulKeyMap>>
    /\ resIdx' = 1
    /\ pc' = AtResource(1, IF mgwSwagger.apiType = WS THEN "wsRoute" ELSE "resource")
    /\ UNCHANGED <<mgwSwagger, routes, routeParams, apiRequestInterceptor,
                   apiLevelBasePathProd, apiLevelBasePathSand, strictBasePath,
                   apiLevelClusterNameProd, apiLevelClusterNameSand, pendingEps, resVars,
                   pureVars, firstRun>>

\* the route of a resource with a production group of its own on that group's base path
WSRoute_OwnBasePath ==
    /\ pc = "wsRoute"
    /\ LET basePath == IF Available(resource.productionEndpoints)
                       THEN TrimSuffix(resource.productionEndpoints[1].Endpoints[1].Basepath, "/")
                       ELSE apiLevelBasePathProd
           params == genRouteCreateParams(mgwSwagger, Some(resource), vHost, basePath,
                                          apiLevelClusterNameProd, apiLevelClusterNameSand,
                                          <<>>, <<>>, organizationID, FALSE)
       IN  /\ routes' = Append(routes, createRoute(params))
           /\ routeParams' = Append(routeParams, params)
    /\ resIdx' = resIdx + 1
    /\ pc' = AtResource(resIdx + 1, "wsRoute")
    /\ UNCHANGED <<mgwSwagger, clusters, endpoints, ClusterConsulKeyMap, apiVars, resVars,
                   pureVars, firstRun>>

\* One iteration of the loop of a websocket API
WSRoute ==
    /\ pc = "wsRoute"
    /\ LET params == genRouteCreateParams(mgwSwagger, Some(resource), vHost,
                                          apiLevelBasePathProd, apiLevelClusterNameProd,
                                          apiLevelClusterNameSand, <<>>, <<>>, organizationID,
                                          FALSE)
       IN  /\ routes' = Append(routes, createRoute(params))
           /\ routeParams' = Append(routeParams, params)
    /\ resIdx' = resIdx + 1
    /\ pc' = AtResource(resIdx + 1, "wsRoute")
    /\ UNCHANGED <<mgwSwagger, clusters, endpoints, ClusterConsulKeyMap, apiVars, resVars,
                   pureVars, firstRun>>

\* The declarations at the top of one iteration of the resource loop
ResourceStart ==
    /\ pc = "resource"
    /\ resourceRequestInterceptor' = apiRequestInterceptor
    /\ resourceResponseInterceptor' = apiResponseInterceptor
    /\ clusterNameProd' = apiLevelClusterNameProd
    /\ clusterNameSand' = apiLevelClusterNameSand
    /\ isResourceBasePathSandAvailable' = FALSE
    /\ IF \/ strictBasePath
          \/ (~Available(resource.productionEndpoints) /\ ~Available(resource.sandboxEndpoints))
       THEN /\ resourceBasePath' = apiLevelBasePathProd
            /\ resourceBasePathSand' = IF apiLevelBasePathSand # "" THEN apiLevelBasePathSand
                                       ELSE apiLevelBasePathProd
       ELSE /\ resourceBasePath' = ""
            /\ resourceBasePathSand' = ""
    /\ pc' = "resourceProd"
    /\ UNCHANGED <<mgwSwagger, resIdx, outVars, apiVars, operationalReqInterceptors,
                   operationalRespInterceptorVal, pendingOps, pureVars, firstRun>>

\* The production cluster name and base path of a resource whose own
\* production group failed to compile
ProdAfterFailure(prevResourceBasePath) ==
    [clusterNameProd |-> apiLevelClusterNameProd, resourceBasePath |-> prevResourceBasePath]

\* resource level check production endpoints
ResourceProd ==
    /\ pc = "resourceProd"
    /\ IF Available(resource.productionEndpoints)
       THEN LET prevResourceBasePath == resourceBasePath
                endpointProd == resource.productionEndpoints[1]
                basePath == IF resourceBasePath = ""
                            THEN TrimSuffix(endpointProd.Endpoints[1].Basepath, "/")
                            ELSE resourceBasePath
                compiles == ~Contains(endpointProd.EndpointPrefix,
                                      xWso2EPClustersConfigNamePrefix)
                name == getClusterName(endpointProd.EndpointPrefix, organizationID, vHost,
                                       apiTitle, apiVersion,
                                       IF compiles THEN resource.iD ELSE "")
                r == processEndpoints(name, endpointProd, upstreamCerts, timeout, basePath)
                failed == ProdAfterFailure(prevResourceBasePath)
            IN  IF compiles /\ r.err # ""
                THEN /\ clusterNameProd' = failed.clusterNameProd
                     /\ resourceBasePath' = failed.resourceBasePath
                     /\ UNCHANGED <<clusters, endpoints, ClusterConsulKeyMap>>
                ELSE /\ clusterNameProd' = name
                     /\ resourceBasePath' = basePath
                     /\ clusters' = IF compiles THEN WithCluster(clusters, r) ELSE clusters
                     /\ endpoints' = IF compiles THEN WithAddresses(endpoints, r) ELSE endpoints
                     /\ ClusterConsulKeyMap' =
                            IF compiles THEN WithRegistry(ClusterConsulKeyMap, r) ELSE ClusterConsulKeyMap
       ELSE UNCHANGED <<clusterNameProd, resourceBasePath, clusters, endpoints, ClusterConsulKeyMap>>
    /\ pc' = "resourceSand"
    /\ UNCHANGED <<mgwSwagger, resIdx, routes, routeParams, apiVars,
                   resourceRequestInterceptor, resourceResponseInterceptor, clusterNameSand,
                   resourceBasePathSand, isResourceBasePathSandAvailable,
                   operationalReqInterceptors, operationalRespInterceptorVal, pendingOps,
                   pureVars, firstRun>>

\* resource level check sandbox endpoints
ResourceSand ==
    /\ pc = "resourceSand"
    /\ IF Available(resource.sandboxEndpoints)
       THEN LET prevResourceBasePath == IF apiLevelBasePathSand # "" THEN apiLevelBasePathSand
                                        ELSE apiLevelBasePathProd
                endpointSand == resource.sandboxEndpoints[1]
                basePath == IF resourceBasePathSand = ""
                            THEN TrimSuffix(endpointSand.Endpoints[1].Basepath, "/")
                            ELSE resourceBasePathSand
                compiles == ~Contains(endpointSand.EndpointPrefix,
                                      xWso2EPClustersConfigNamePrefix)
                name == getClusterName(endpointSand.EndpointPrefix, organizationID, vHost,
                                       apiTitle, apiVersion,
                                       IF compiles THEN resource.iD ELSE "")
                r == processEndpoints(name, endpointSand, upstreamCerts, timeout, basePath)
            IN  IF compiles /\ r.err # ""
                THEN /\ clusterNameSand' = apiLevelClusterNameSand
                     /\ resourceBasePathSand' = prevResourceBasePath
                     /\ UNCHANGED <<clusters, endpoints, ClusterConsulKeyMap,
                                    isResourceBasePathSandAvailable>>
                ELSE /\ clusterNameSand' = name
                     /\ resourceBasePathSand' = basePath
                     /\ clusters' = IF compiles THEN WithCluster(clusters, r) ELSE clusters
                     /\ endpoints' = IF compiles THEN WithAddresses(endpoints, r) ELSE endpoints
                     /\ ClusterConsulKeyMap' =
                            IF compiles THEN WithRegistry(ClusterConsulKeyMap, r) ELSE ClusterConsulKeyMap
                     /\ isResourceBasePathSandAvailable' =
                            (compiles \/ isResourceBasePathSandAvailable)
       ELSE UNCHANGED <<clusterNameSand, resourceBasePathSand, clusters, endpoints, ClusterConsulKeyMap,
                        isResourceBasePathSandAvailable>>
    /\ pc' = "reconcile"
    /\ UNCHANGED <<mgwSwagger, resIdx, routes, routeParams, apiVars,
                   resourceRequestInterceptor, resourceResponseInterceptor, clusterNameProd,
                   resourceBasePath, operationalReqInterceptors,
                   operationalRespInterceptorVal, pendingOps, pureVars, firstRun>>

\* the API-level production cluster name blanked whatever the base path
ReconciledProdName_Blanked(name, basePath) ==
    IF name # "" /\ name = apiLevelClusterNameProd THEN "" ELSE name

\* The production cluster name after the base-path check against the API level
ReconciledProdName(name, basePath) ==
    IF /\ name # ""
       /\ name = apiLevelClusterNameProd
       /\ basePath # apiLevelBasePathProd
       /\ basePath # ""
    THEN ""
    ELSE name

\* The statements between the resource-level compiles and the interceptors
Reconcile ==
    /\ pc = "reconcile"
    /\ LET prodOnly == resourceBasePath # "" /\ resourceBasePathSand = ""
           sandOnly == ~prodOnly /\ resourceBasePath = "" /\ resourceBasePathSand # ""
           apiSand == IF prodOnly /\ apiLevelBasePathSand = "" THEN apiLevelBasePathProd
                      ELSE apiLevelBasePathSand
           basePath == IF sandOnly THEN apiLevelBasePathProd ELSE resourceBasePath
           basePathSand ==
               IF /\ clusterNameProd = apiLevelClusterNameProd
                  /\ clusterNameSand = apiLevelClusterNameSand
               THEN IF apiSand # "" THEN apiSand ELSE apiLevelBasePathProd
               ELSE IF prodOnly THEN apiSand ELSE resourceBasePathSand
       IN  /\ apiLevelBasePathSand' = apiSand
           /\ resourceBasePath' = basePath
           /\ resourceBasePathSand' = basePathSand
           /\ clusterNameProd' = ReconciledProdName(clusterNameProd, basePath)
           /\ clusterNameSand' =
                 IF /\ clusterNameSand # ""
                    /\ apiSand # ""
                    /\ clusterNameSand = apiLevelClusterNameSand
                    /\ basePathSand # apiSand
                 THEN ""
                 ELSE clusterNameSand
    /\ pc' = "resourceRequestInterceptor"
    /\ UNCHANGED <<mgwSwagger, resIdx, outVars, apiRequestInterceptor, apiResponseInterceptor,
                   apiLevelBasePathProd, strictBasePath, apiLevelClusterNameProd,
                   apiLevelClusterNameSand, pendingEps, resourceRequestInterceptor,
                   resourceResponseInterceptor, isResourceBasePathSandAvailable,
                   operationalReqInterceptors, operationalRespInterceptorVal, pendingOps,
                   pureVars, firstRun>>

\* The entries of an operation interceptor map the range loop acts on
OperationLevel(interceptors) ==
    {m \in DOMAIN interceptors :
        interceptors[m].Enable /\ interceptors[m].Level = OperationLevelInterceptor}

\* The resource level request interceptor and the map of the operations'
ResourceRequestInterceptor ==
    /\ pc = "resourceRequestInterceptor"
    /\ LET reqInterceptorVal == GetInterceptor(resource.requestInterceptor,
                                               ResourceLevelInterceptor)
           named == [reqInterceptorVal EXCEPT !.ClusterName =
                        getClusterName(requestInterceptClustersNamePrefix, organizationID,
                                       vHost, apiTitle, apiVersion, resource.iD)]
           r == CreateLuaCluster(interceptorCerts, named)
       IN  IF reqInterceptorVal.Enable /\ r.err = ""
           THEN /\ resourceRequestInterceptor' = named
                /\ clusters' = WithCluster(clusters, r)
                /\ endpoints' = WithAddresses(endpoints, r)
                /\ ClusterConsulKeyMap' = WithRegistry(ClusterConsulKeyMap, r)
           ELSE UNCHANGED <<resourceRequestInterceptor, clusters, endpoints, ClusterConsulKeyMap>>
    /\ operationalReqInterceptors' =
          GetOperationInterceptors(apiRequestInterceptor, resourceRequestInterceptor',
                                   resource.methods, TRUE)
    /\ pendingOps' = OperationLevel(operationalReqInterceptors')
    /\ pc' = IF pendingOps' = {} THEN "resourceResponseInterceptor"
             ELSE "operationRequestInterceptors"
    /\ UNCHANGED <<mgwSwagger, resIdx, routes, routeParams, apiVars,
                   resourceResponseInterceptor, clusterNameProd, clusterNameSand,
                   resourceBasePath, resourceBasePathSand, isResourceBasePathSandAvailable,
                   operationalRespInterceptorVal, pureVars, firstRun>>

\* The entry a failed operation-level interceptor is replaced by
FailedOperationInterceptor(opI, fallback) == fallback

\* One iteration of the range over operationalReqInterceptors, at an entry
\* that is enabled at operation level (the others are passed over)
OperationRequestInterceptor ==
    /\ pc = "operationRequestInterceptors"
    /\ \E method \in pendingOps :
        LET opI == operationalReqInterceptors[method]
            opID == opI.ClusterName
            named == [opI EXCEPT !.ClusterName =
                         getClusterName(requestInterceptClustersNamePrefix, organizationID,
                                        vHost, apiTitle, apiVersion, opID)]
            r == CreateLuaCluster(interceptorCerts, named)
        IN  /\ operationalReqInterceptors' =
                  [operationalReqInterceptors EXCEPT ![method] =
                      IF r.err # ""
                      THEN FailedOperationInterceptor(named, resourceRequestInterceptor)
                      ELSE named]
            /\ clusters' = WithCluster(clusters, r)
            /\ endpoints' = WithAddresses(endpoints, r)
            /\ ClusterConsulKeyMap' = WithRegistry(ClusterConsulKeyMap, r)
            /\ pendingOps' = pendingOps \ {method}
    /\ pc' = IF pendingOps' = {} THEN "resourceResponseInterceptor" ELSE pc
    /\ UNCHANGED <<mgwSwagger, resIdx, routes, routeParams, apiVars,
                   resourceRequestInterceptor, resourceResponseInterceptor, clusterNameProd,
                   clusterNameSand, resourceBasePath, resourceBasePathSand,
                   isResourceBasePathSandAvailable, operationalRespInterceptorVal, pureVars, firstRun>>

\* The resource level response interceptor and the map of the operations'
ResourceResponseInterceptor ==
    /\ pc = "resourceResponseInterceptor"
    /\ LET respInterceptorVal == GetInterceptor(resource.responseInterceptor,
                                                ResourceLevelInterceptor)
           named == [respInterceptorVal EXCEPT !.ClusterName =
                        getClusterName(responseInterceptClustersNamePrefix, organizationID,
                                       vHost, apiTitle, apiVersion, resource.iD)]
           r == CreateLuaCluster(interceptorCerts, named)
       IN  IF respInterceptorVal.Enable /\ r.err = ""
           THEN /\ resourceResponseInterceptor' = named
                /\ clusters' = WithCluster(clusters, r)
                /\ endpoints' = WithAddresses(endpoints, r)
                /\ ClusterConsulKeyMap' = WithRegistry(ClusterConsulKeyMap, r)
           ELSE UNCHANGED <<resourceResponseInterceptor, clusters, endpoints, ClusterConsulKeyMap>>
    /\ operationalRespInterceptorVal' =
          GetOperationInterceptors(apiResponseInterceptor, resourceResponseInterceptor',
                                   resource.methods, FALSE)
    /\ pendingOps' = OperationLevel(operationalRespInterceptorVal')
    /\ pc' = IF pendingOps' = {} THEN "emitRoutes" ELSE "operationResponseInterceptors"
    /\ UNCHANGED <<mgwSwagger, resIdx, routes, routeParams, apiVars,
                   resourceRequestInterceptor, clusterNameProd, clusterNameSand,
                   resourceBasePath, resourceBasePathSand, isResourceBasePathSandAvailable,
                   operationalReqInterceptors, pureVars, firstRun>>

\* One iteration of the range over operationalRespInterceptorVal
OperationResponseInterceptor ==
    /\ pc = "operationResponseInterceptors"
    /\ \E method \in pendingOps :
        LET opI == operationalRespInterceptorVal[method]
            opID == opI.ClusterName
            named == [opI EXCEPT !.ClusterName =
                         getClusterName(responseInterceptClustersNamePrefix, organizationID,
                                        vHost, apiTitle, apiVersion, opID)]
            r == CreateLuaCluster(interceptorCerts, named)
        IN  /\ operationalRespInterceptorVal' =
                  [operationalRespInterceptorVal EXCEPT ![method] =
                      IF r.err # ""
                      THEN FailedOperationInterceptor(named, resourceResponseInterceptor)
                      ELSE named]
            /\ clusters' = WithCluster(clusters, r)
            /\ endpoints' = WithAddresses(endpoints, r)
            /\ ClusterConsulKeyMap' = WithRegistry(ClusterConsulKeyMap, r)
            /\ pendingOps' = pendingOps \ {method}
    /\ pc' = IF pendingOps' = {} THEN "emitRoutes" ELSE pc
    /\ UNCHANGED <<mgwSwagger, resIdx, routes, routeParams, apiVars,
                   resourceRequestInterceptor, resourceResponseInterceptor, clusterNameProd,
                   clusterNameSand, resourceBasePath, resourceBasePathSand,
                   isResourceBasePathSandAvailable, operationalReqInterceptors, pureVars, firstRun>>

\* the production route appended first
AppendRoutes_ProdFirst(list, routeS, routeP, sandbox) ==
    IF sandbox THEN Append(Append(list, routeP), routeS) ELSE Append(list, routeP)

\* routes = append(routes, routeS) when a sandbox route is created, then
\* routes = append(routes, routeP)
AppendRoutes(list, routeS, routeP, sandbox) ==
    IF sandbox THEN Append(Append(list, routeS), routeP) ELSE Append(list, routeP)

\* The routes of the resource; the locals of the iteration go out of scope
EmitRoutes ==
    /\ pc = "emitRoutes"
    /\ LET paramsP == genRouteCreateParams(mgwSwagger, Some(resource), vHost,
                                           resourceBasePath, clusterNameProd, clusterNameSand,
                                           operationalReqInterceptors,
                                           operationalRespInterceptorVal, organizationID, FALSE)
           paramsS == genRouteCreateParams(mgwSwagger, Some(resource), vHost,
                                           resourceBasePathSand, clusterNameProd,
                                           clusterNameSand, operationalReqInterceptors,
                                           operationalRespInterceptorVal, organizationID, TRUE)
           sandbox == apiLevelBasePathSand # "" \/ isResourceBasePathSandAvailable
       IN  /\ routes' = AppendRoutes(routes, createRoute(paramsS), createRoute(paramsP), sandbox)
           /\ routeParams' = AppendRoutes(routeParams, paramsS, paramsP, sandbox)
    /\ resIdx' = resIdx + 1
    /\ pc' = AtResource(resIdx + 1, "resource")
    /\ resourceRequestInterceptor' = NoInterceptEndpoint
    /\ resourceResponseInterceptor' = NoInterceptEndpoint
    /\ clusterNameProd' = ""
    /\ clusterNameSand' = ""
    /\ resourceBasePath' = ""
    /\ resourceBasePathSand' = ""
    /\ isResourceBasePathSandAvailable' = FALSE
    /\ operationalReqInterceptors' = <<>>
    /\ operationalRespInterceptorVal' = <<>>
    /\ pendingOps' = {}
    /\ UNCHANGED <<mgwSwagger, clusters, endpoints, ClusterConsulKeyMap, apiVars, pureVars,
                   firstRun>>

Next ==
    \/ ApiLevelProd
    \/ ApiLevelSand
    \/ XWso2Endpoint
    \/ ApiRequestInterceptor
    \/ ApiResponseInterceptor
    \/ WSRoute
    \/ ResourceStart
    \/ ResourceProd
    \/ ResourceSand
    \/ Reconcile
    \/ ResourceRequestInterceptor
    \/ OperationRequestInterceptor
    \/ ResourceResponseInterceptor
    \/ OperationResponseInterceptor
    \/ EmitRoutes

(***************************************************************************)
(* The API models translated                                               *)
(***************************************************************************)
MaxResources == 2

\* upstream services: the first is resolved by service discovery
epA == EndpointOf("http", "a.svc", 80, "/a", "consul(a)")

epB == EndpointOf("http", "b.svc", 80, "/b", "")

\* a second instance of the first service: the base path differs in the trailing slash
epA2 == EndpointOf("http", "a2.svc", 80, "/a/", "")

\* interceptor services: the second has a host that does not marshal
epI == EndpointOf("https", "i.svc", 9081, "/i", "")

epJ == EndpointOf("https", "h\\xff", 9081, "/i", "")

Group(eps, prefix) ==
    [Endpoints |-> eps, EndpointType |-> "loadbalance", EndpointPrefix |-> prefix,
     Config |-> Nil]

Pointers(S) == {Nil} \cup {Some(x) : x \in S}

ApiProdGroups == Pointers({Group(e, "clusterProd") : e \in {<<epA>>, <<epA, epB>>}})

ApiSandGroups == Pointers({Group(e, "clusterSand") : e \in {<<epA>>, <<epB>>, <<epA, epB>>}})

ResourceProdGroups ==
    Pointers({Group(e, "clusterProd") : e \in {<<epA>>, <<epB>>, <<epA, epB>>}})

ResourceSandGroups ==
    Pointers({Group(e, "clusterSand") : e \in {<<epA>>, <<epB>>, <<epA, epB>>}})

NamedAB ==
    [n \in {"n1", "n2"} |-> IF n = "n1" THEN Group(<<epA>>, "xwso2cluster_n1")
                            ELSE Group(<<epB>>, "xwso2cluster_n2")]

NamedEmpty == [n \in {"n0"} |-> Group(<<>>, "xwso2cluster_n0")]

Interceptors == Pointers({epI, epJ})

\* The methods of the k-th resource
MethodsOf(k) == IF k % 2 = 1 THEN <<"GET", "POST">> ELSE <<"PUT">>

\* The k-th resource of a model, without upstreams and interceptors of its own
ResourceOf(k) ==
    [iD |-> "r" \o Itoa(k),
     path |-> "/pets" \o Itoa(k),
     methods |-> [j \in 1..Len(MethodsOf(k)) |->
                     [iD |-> "r" \o Itoa(k) \o "op" \o Itoa(j), method |-> MethodsOf(k)[j],
                      requestInterceptor |-> Nil, responseInterceptor |-> Nil]],
     productionEndpoints |-> Nil,
     sandboxEndpoints |-> Nil,
     requestInterceptor |-> Nil,
     responseInterceptor |-> Nil,
     rewritePath |-> "",
     rewriteMethod |-> (k % 2 = 0)]

\* The k-th resource as it is
PlainResources(k) == {ResourceOf(k)}

\* The upstreams of its own a resource after the first has
LaterResourceGroups ==
    {<<Nil, Nil>>,
     <<Some(Group(<<epB>>, "clusterProd")), Nil>>,
     <<Nil, Some(Group(<<epB>>, "clusterSand"))>>,
     <<Some(Group(<<epA, epB>>, "clusterProd")), Some(Group(<<epA, epB>>, "clusterSand"))>>}

\* The k-th resource with upstreams of its own
ResourcesWithEndpoints(k) ==
    {[ResourceOf(k) EXCEPT !.productionEndpoints = g[1], !.sandboxEndpoints = g[2]] :
        g \in IF k = 1 THEN ResourceProdGroups \X ResourceSandGroups ELSE LaterResourceGroups}

\* The k-th resource with interceptors of its own and of its operations
ResourcesWithInterceptors(k) ==
    {[ResourceOf(k) EXCEPT !.requestInterceptor = a, !.responseInterceptor = b,
                           !.methods[1].responseInterceptor = e,
                           !.methods = [j \in DOMAIN @ |->
                                           [@[j] EXCEPT !.requestInterceptor =
                                                IF j = 1 THEN c ELSE d]]] :
        a \in Interceptors, b \in Interceptors, c \in Interceptors, d \in Interceptors,
        e \in Interceptors}

\* The lists of n resources, the k-th drawn from R[k]
ResourceLists(R, n) == {l \in [1..n -> UNION {R[k] : k \in 1..n}] : \A k \in 1..n : l[k] \in R[k]}

ApiOf(type, prod, sand, named, req, resp, resources) ==
    [title |-> "pet store", version |-> "v1", apiType |-> type, xWso2Basepath |-> "",
     isDefaultVersion |-> FALSE,
     productionEndpoints |-> prod, sandboxEndpoints |-> sand, xWso2Endpoints |-> named,
     requestInterceptor |-> req, responseInterceptor |-> resp, resources |-> resources]

\* REST APIs whose upstreams vary at every level, without interceptors
EndpointModels ==
    {ApiOf(HTTP, prod, sand, named, Nil, Nil, resources) :
        prod \in ApiProdGroups, sand \in ApiSandGroups, named \in {<<>>, NamedAB},
        resources \in UNION {ResourceLists([k \in 1..n |-> ResourcesWithEndpoints(k)], n) : n \in 1..MaxResources}}

\* REST APIs whose interceptors vary at every level, all resources on the API's upstream
InterceptorModels ==
    {ApiOf(HTTP, Some(Group(<<epA>>, "clusterProd")), Nil, <<>>, req, resp, resources) :
        req \in Interceptors, resp \in Interceptors,
        resources \in UNION {ResourceLists([k \in 1..n |-> ResourcesWithInterceptors(k)], n) : n \in 1..1}}

\* Websocket APIs, and APIs with a named endpoint group that has no endpoint
OtherModels ==
    {ApiOf(type, prod, sand, named, req, Nil, resources) :
        type \in {WS, HTTP}, prod \in ApiProdGroups, sand \in {Nil, Some(Group(<<epB>>, "clusterSand"))},
        named \in {<<>>, NamedEmpty}, req \in Interceptors,
        resources \in UNION {ResourceLists([k \in 1..n |-> PlainResources(k)], n) : n \in 0..MaxResources}}

\* The k-th resource of a websocket API: upstreams of its own, or upstreams and
\* interceptors of its own and of its first operation
WebsocketResources(k) ==
    ResourcesWithEndpoints(k)
        \cup {[ResourceOf(k) EXCEPT !.productionEndpoints = Some(Group(<<epB>>, "clusterProd")),
                                    !.requestInterceptor = Some(epI),
                                    !.responseInterceptor = Some(epI),
                                    !.methods[1].requestInterceptor = Some(epI)]}

\* Websocket APIs whose resources declare upstreams and interceptors
WebsocketModels ==
    {ApiOf(WS, Some(Group(prod, "clusterProd")), sand, <<>>, req, Nil, resources) :
        prod \in {<<epA>>, <<epA, epA2>>}, sand \in {Nil, Some(Group(<<epB>>, "clusterSand"))},
        req \in Interceptors,
        resources \in UNION {ResourceLists([k \in 1..n |-> WebsocketResources(k)], n) : n \in 1..MaxResources}}

\* an upstream service at the root: its URL has no path
epE == EndpointOf("http", "e.svc", 80, "", "")

NamedE == [n \in {"n1"} |-> Group(<<epE>>, "xwso2cluster_n1")]

\* REST APIs with an upstream at the root at one level or another
EmptyBasePathModels ==
    {ApiOf(HTTP, Some(Group(<<prod>>, "clusterProd")), sand, named, Nil, Nil,
           <<[ResourceOf(1) EXCEPT !.productionEndpoints = own]>>) :
        prod \in {epA, epE},
        sand \in Pointers({Group(<<e>>, "clusterSand") : e \in {epE, epB}}),
        named \in {<<>>, NamedE},
        own \in Pointers({Group(<<epB>>, "clusterProd")})}

\* REST APIs whose API-level and resource-level groups refer to named endpoint
\* groups: the prefix of the group carries the name, the endpoints are the
\* named group's
ReferenceModels ==
    {ApiOf(HTTP, Some(Group(<<epA>>, prefix)), sand, NamedAB, Nil, Nil,
           <<[ResourceOf(1) EXCEPT !.productionEndpoints = own]>>) :
        prefix \in {"clusterProd", "xwso2cluster_n1"},
        sand \in Pointers({Group(<<epB>>, "xwso2cluster_n2")}),
        own \in Pointers({Group(<<epA>>, "xwso2cluster_n1"), Group(<<epB>>, "xwso2cluster_n2"),
                          Group(<<epB>>, "clusterProd")})}

ApiModels ==
    EndpointModels \cup InterceptorModels \cup OtherModels \cup WebsocketModels
        \cup EmptyBasePathModels \cup ReferenceModels

Init ==
    /\ mgwSwagger \in ApiModels
    /\ pc = "apiLevelProd"
    /\ TranslatorLocalsFresh
    /\ firstRun = Nil
    /\ ClusterConsulKeyMap = <<>>
    /\ NameIdle
    /\ PEIdle
    /\ RouteIdle
    /\ ThreadsIdle
    /\ ConfigPlain

Spec == Init /\ [][Next]_vars

(***************************************************************************)
(* CreateRoutesWithClusters called twice with the same arguments           *)
(***************************************************************************)
\* The first call has returned: its results are kept and the second begins
Rerun ==
    /\ pc = "done"
    /\ firstRun = Nil
    /\ firstRun' = Some([routes |-> routes, clusters |-> clusters, endpoints |-> endpoints])
    /\ pc' = "apiLevelProd"
    /\ routes' = <<>>
    /\ routeParams' = <<>>
    /\ clusters' = <<>>
    /\ endpoints' = <<>>
    /\ apiRequestInterceptor' = NoInterceptEndpoint
    /\ apiResponseInterceptor' = NoInterceptEndpoint
    /\ apiLevelBasePathProd' = ""
    /\ apiLevelBasePathSand' = ""
    /\ strictBasePath' = FALSE
    /\ apiLevelClusterNameProd' = ""
    /\ apiLevelClusterNameSand' = ""
    /\ pendingEps' = {}
    /\ resIdx' = 0
    /\ UNCHANGED <<mgwSwagger, resVars, pureVars, ClusterConsulKeyMap>>

NextDet == Next \/ Rerun

SpecDet == Init /\ [][NextDet]_vars

(***************************************************************************)
(* Translator threads that compile endpoint groups concurrently.  The      *)
(* threads and the mutex are the callers' side: each thread holds the      *)
(* registry mutex while its call of processEndpoints runs.                 *)
(***************************************************************************)
MaxThreads == 2

MaxCalls == 2

\* a service resolved by service discovery under another key
epC == EndpointOf("http", "c.svc", 80, "/a", "consul(c)")

\* The calls a thread makes: a cluster name and a group, compiled against the
\* base path of the group's first endpoint
ThreadCalls ==
    [clusterName : {"c1", "c2"},
     clusterDetails : {Group(e, "clusterProd") : e \in {<<epA>>, <<epC>>, <<epB>>, <<epA, epB>>}}]

InitThreads ==
    /\ threads = [t \in 1..MaxThreads |-> [pc |-> "idle", call |-> Nil, calls |-> 0]]
    /\ registryMutex = 0
    /\ NameIdle
    /\ PEIdle
    /\ RouteIdle
    /\ TranslatorIdle
    /\ ConfigPlain

\* The thread takes the mutex and enters processEndpoints
Lock(t) ==
    /\ threads[t].pc = "idle"
    /\ threads[t].calls < MaxCalls
    /\ registryMutex = 0
    /\ registryMutex' = t
    /\ \E call \in ThreadCalls :
          threads' = [threads EXCEPT ![t] = [pc |-> "compile", call |-> Some(call),
                                             calls |-> @.calls + 1]]
    /\ UNCHANGED <<cfgVars, nameVars, peVars, rtVars, trVars>>

\* The result of the call the thread is in
ThreadResult(t) ==
    LET call == threads[t].call[1] IN
    processEndpoints(call.clusterName, call.clusterDetails, upstreamCerts, timeout,
                     TrimSuffix(call.clusterDetails.Endpoints[1].Basepath, "/"))

\* processEndpoints up to the test of serviceDiscoveryString: the thread goes
\* on to the registry write, or returns without one
Compile(t) ==
    /\ threads[t].pc = "compile"
    /\ threads' = [threads EXCEPT ![t].pc =
                      IF ThreadResult(t).kind = "ok" /\ ThreadResult(t).registry # Nil
                      THEN "write" ELSE "unlock"]
    /\ UNCHANGED <<cfgVars, registryMutex, nameVars, peVars, rtVars, trVars>>

\* svcdiscovery.ClusterConsulKeyMap[clusterName] = serviceDiscoveryString
RegistryWrite(t) ==
    /\ threads[t].pc = "write"
    /\ ClusterConsulKeyMap' = WithRegistry(ClusterConsulKeyMap, ThreadResult(t))
    /\ threads' = [threads EXCEPT ![t].pc = "unlock"]
    /\ UNCHANGED <<cfgVars, registryMutex, nameVars, peVars, rtVars, mgwSwagger, pc, resIdx, routes,
                   routeParams, clusters, endpoints, apiVars, resVars, firstRun>>

\* The call has returned: the thread releases the mutex
Unlock(t) ==
    /\ threads[t].pc = "unlock"
    /\ registryMutex' = 0
    /\ threads' = [threads EXCEPT ![t] = [pc |-> "idle", call |-> Nil, calls |-> @.calls]]
    /\ UNCHANGED <<cfgVars, nameVars, peVars, rtVars, trVars>>

NextThreads == \E t \in 1..MaxThreads : Lock(t) \/ Compile(t) \/ RegistryWrite(t) \/ Unlock(t)

SpecThreads == InitThreads /\ [][NextThreads]_vars

(***************************************************************************)
(* createRoute applied to the parameters of one resource                   *)
(***************************************************************************)
MaxMethods == 3

RouteMethods == {"GET", "POST", "OPTIONS"}

\* A resource declares at least one operation
MethodLists == UNION {[1..n -> RouteMethods] : n \in 1..MaxMethods}

\* The resource whose operations have the methods of the list
ResourceWithMethods(methodList, rewriteMethod) ==
    [ResourceOf(1) EXCEPT
        !.methods = [j \in 1..Len(methodList) |->
                        [iD |-> "op" \o Itoa(j), method |-> methodList[j],
                         requestInterceptor |-> Nil, responseInterceptor |-> Nil]],
        !.rewriteMethod = rewriteMethod]

\* Routes of resources that differ in their operations
MethodParams ==
    {genRouteCreateParams(ApiOf(HTTP, Nil, Nil, <<>>, Nil, Nil, <<>>),
                          Some(ResourceWithMethods(l, rw)), vHost, "/a", "prodCluster",
                          "sandCluster", <<>>, <<>>, organizationID, sb) :
        l \in MethodLists, rw \in BOOLEAN, sb \in BOOLEAN}

MaxSegments == 3

RECURSIVE SegmentPaths(_)
\* The paths of n segments
SegmentPaths(n) ==
    IF n = 0 THEN {""} ELSE {p \o "/" \o seg : p \in SegmentPaths(n - 1), seg \in {"foo", "{id}", "{a}{b}", "{}", "*"}}

\* Resource paths: the segments, then nothing, a slash, a wildcard or a query
ResourcePaths ==
    {p \o tail : p \in UNION {SegmentPaths(n) : n \in 0..MaxSegments},
                 tail \in {"", "/", "/*", "?q={v}"}}

\* An API with a base path of its own
ApiAt(type, xWso2Basepath, version, isDefaultVersion) ==
    [ApiOf(type, Nil, Nil, <<>>, Nil, Nil, <<>>) EXCEPT
        !.xWso2Basepath = xWso2Basepath, !.version = version,
        !.isDefaultVersion = isDefaultVersion]

\* Routes of resources that differ in their path and its rewrite
PathParams ==
    {genRouteCreateParams(ApiAt(HTTP, xw, "v1", FALSE),
                          Some([ResourceOf(1) EXCEPT !.path = path, !.rewritePath = rewrite]),
                          vHost, "/v3", "prodCluster", "sandCluster", <<>>, <<>>,
                          organizationID, FALSE) :
        xw \in {"", "/api"}, path \in ResourcePaths, rewrite \in {"", "/", "/new/{id}"}}

\* Routes of APIs that differ in their base path, version and default-version flag
DefaultVersionParams ==
    {genRouteCreateParams(ApiAt(HTTP, xw, version, isDefault), Some(ResourceOf(1)), vHost,
                          "/v3", "prodCluster", "sandCluster", <<>>, <<>>, organizationID,
                          FALSE) :
        xw \in {"/foo/v2", "/foo/v2/", "/foo", "/v2", "/v2/foo/v2", "/v2/v2", "/foo/v2/bar", "/v2x/v2"},
        version \in {"v2", "v1"}, isDefault \in BOOLEAN}

\* Routes of websocket and REST APIs as the websocket branch asks for them,
\* and of a websocket API without a resource, where the default methods show
UpgradeParams ==
    {genRouteCreateParams(ApiAt(type, xw, "v1", FALSE), Some(ResourceWithMethods(l, FALSE)),
                          vHost, "/a", "prodCluster", "sandCluster", <<>>, <<>>,
                          organizationID, FALSE) :
        type \in {WS, HTTP}, xw \in {"", "/api"}, l \in MethodLists}
    \cup {genRouteCreateParams(ApiAt(WS, xw, "v1", FALSE), Nil, vHost, "/a", "prodCluster",
                               "sandCluster", <<>>, <<>>, organizationID, FALSE) :
             xw \in {"", "/api"}}

\* Interceptor maps keyed by method: none, or one interceptor for some of
\* the methods, enabled with a cluster of its own or the zero value
InterceptorMaps ==
    {<<>>} \cup
    {[m \in M |-> i] :
        M \in (SUBSET {"GET", "POST"}) \ {{}},
        i \in {NoInterceptEndpoint,
                [GetInterceptor(Some(epI), ResourceLevelInterceptor) EXCEPT
                    !.ClusterName = "interceptCluster"]}}

\* Routes of resources that differ in their interceptors
LuaParams ==
    {genRouteCreateParams(ApiOf(HTTP, Nil, Nil, <<>>, Nil, Nil, <<>>),
                          Some(ResourceWithMethods(<<"GET", "POST">>, FALSE)), vHost, "/a",
                          "prodCluster", "sandCluster", req, resp, organizationID, sb) :
        req \in InterceptorMaps, resp \in InterceptorMaps, sb \in BOOLEAN}

\* Endpoint configs: none, one without a retry config, one that declares it
EndpointConfigs ==
    {Nil, Some([RetryConfig |-> Nil]),
     Some([RetryConfig |-> Some([Count |-> 3, StatusCodes |-> <<504>>])])}

\* API-level groups that differ in their endpoint config
ConfiguredGroups(prefix) ==
    Pointers({[Group(<<epA>>, prefix) EXCEPT !.Config = config] : config \in EndpointConfigs})

\* Routes of APIs that differ in the configs of their endpoints
RetryParams ==
    {genRouteCreateParams(ApiOf(HTTP, prod, sand, <<>>, Nil, Nil, <<>>), Some(ResourceOf(1)),
                          vHost, "/a", "prodCluster", "sandCluster", <<>>, <<>>,
                          organizationID, sb) :
        prod \in ConfiguredGroups("clusterProd"), sand \in ConfiguredGroups("clusterSand"),
        sb \in BOOLEAN}

\* Base intervals of the configuration, in milliseconds: the last two are the
\* first whose nanoseconds and whose microseconds pass the int32 range
RetryIntervals == {0, 1, 25, 1000, 2147, 2148, 2147483, 2147484}

RouteParams == MethodParams \cup PathParams \cup DefaultVersionParams \cup UpgradeParams

InitRoute ==
    /\ \/ /\ routeArgs \in RouteParams
          /\ ConfigPlain
       \/ /\ routeArgs \in LuaParams
          /\ conf = ConfigOf(FALSE, "/truststore/ca.pem", 25)
          /\ logConf \in {LogConfigOf(enable) : enable \in BOOLEAN}
       \/ /\ routeArgs \in RetryParams
          /\ conf \in {ConfigOf(FALSE, "/truststore/ca.pem", baseIntervalInMillis) :
                          baseIntervalInMillis \in RetryIntervals}
          /\ logConf = LogConfigOf(FALSE)
    /\ routeResult = <<>>
    /\ NameIdle
    /\ PEIdle
    /\ ThreadsIdle
    /\ TranslatorIdle

CallCreateRoute ==
    /\ routeArgs # <<>>
    /\ routeResult = <<>>
    /\ routeResult' = Some(createRoute(routeArgs))
    /\ UNCHANGED <<cfgVars, routeArgs, nameVars, peVars, thVars, trVars>>

NextRoute == CallCreateRoute

SpecRoute == InitRoute /\ [][NextRoute]_vars

(***************************************************************************)
(* Properties                                                              *)
(***************************************************************************)
Done == pc = "done"

IsREST == mgwSwagger # <<>> /\ mgwSwagger.apiType # WS

\* The indices of the sandbox routes and of the production routes
SandboxRoutes == {i \in DOMAIN routeParams : routeParams[i].isSandbox}

ProductionRoutes == {i \in DOMAIN routeParams : ~routeParams[i].isSandbox}

\* C1: a sandbox route is at a strictly lower index than the production route
\* of the same resource: the route right after it is that production route.
C1_SandboxBeforeProduction ==
    \A i \in SandboxRoutes :
        /\ i + 1 \in ProductionRoutes
        /\ routeParams[i + 1].resourcePathParam = routeParams[i].resourcePathParam
        /\ routes[i] = createRoute(routeParams[i])
        /\ routes[i + 1] = createRoute(routeParams[i + 1])

C1_Witness ==
    /\ Done
    /\ Len(routes) = 4
    /\ SandboxRoutes = {1, 3}

\* The header matchers of the route at index i that match the cluster header
ClusterHeaderMatchers(i) ==
    {k \in DOMAIN routes[i].Headers : routes[i].Headers[k].Name = clusterHeaderName}

\* C2: every sandbox route carries an exact matcher on x-wso2-cluster-header
\* whose value is the sandbox cluster name, whatever rewriteMethod is, and a
\* production route never carries that matcher.
C2_ClusterHeaderOnSandboxRoutes ==
    /\ \A i \in SandboxRoutes :
          \E k \in ClusterHeaderMatchers(i) :
              /\ routes[i].Headers[k].MatchPattern = "exact"
              /\ routes[i].Headers[k].Value = routeParams[i].sandClusterName
    /\ \A i \in ProductionRoutes : ClusterHeaderMatchers(i) = {}

\* The regex the :method matcher of a route over the methods is to carry
ExpectedMethodRegex(methodList) ==
    LET declared == \E k \in DOMAIN methodList : methodList[k] = "OPTIONS"
    IN  "^(" \o Join(IF declared THEN methodList ELSE Append(methodList, "OPTIONS"), "|") \o ")$"

\* The :method matchers of the route createRoute returned
MethodMatchers == {k \in DOMAIN routeResult[1].Headers :
                      routeResult[1].Headers[k].Name = httpMethodHeader}

\* C3: a route with rewriteMethod false has exactly one :method matcher, a
\* regex ^(M1|...|Mn|OPTIONS)$ over the declared methods with OPTIONS appended
\* exactly when it is not declared; a route with rewriteMethod true has none.
C3_MethodMatcher ==
    routeResult # <<>> =>
        IF routeArgs.rewriteMethod
        THEN MethodMatchers = {}
        ELSE /\ Cardinality(MethodMatchers) = 1
             /\ \A k \in MethodMatchers :
                   /\ routeResult[1].Headers[k].MatchPattern = "safe_regex"
                   /\ routeResult[1].Headers[k].Value =
                          ExpectedMethodRegex(routeArgs.resourceMethods)

C3_Witness ==
    /\ routeResult # <<>>
    /\ ~routeArgs.rewriteMethod
    /\ routeArgs.resourceMethods = <<"OPTIONS", "GET">>
    /\ routeResult[1].Headers[1].Value = "^(OPTIONS|GET)$"

\* C4: a production route that names the API-level production cluster has the
\* API-level production base path as its endpoint base path, also after a
\* resource-level compile failure followed by the revert.
C4_ApiClusterWithApiBasePath ==
    IsREST =>
        \A i \in ProductionRoutes :
            /\ routeParams[i].prodClusterName # ""
            /\ routeParams[i].prodClusterName = apiLevelClusterNameProd
            => routeParams[i].endpointBasePath = apiLevelBasePathProd

\* Every endpoint's base path, its trailing slash trimmed, is the expected one
AllBasePathsMatch ==
    \A k \in DOMAIN peArgs.clusterDetails.Endpoints :
        TrimSuffix(peArgs.clusterDetails.Endpoints[k].Basepath, "/") = peArgs.basePath

\* The upstream TLS context of every TLS-bearing endpoint marshals
AllTLSContextsMarshal ==
    \A k \in DOMAIN peArgs.clusterDetails.Endpoints :
        LET ep == peArgs.clusterDetails.Endpoints[k]
        IN  (HasPrefix(ep.URLType, "https") \/ HasPrefix(ep.URLType, "wss"))
                => ep.Host \notin InvalidUTF8Hosts

\* processEndpoints has returned for a group that is not empty
Compiled == peResult # <<>> /\ Len(peArgs.clusterDetails.Endpoints) > 0

\* C5 as stated: processEndpoints returns a cluster if and only if every
\* endpoint's trimmed base path equals the expected base path, and otherwise an
\* error with a nil cluster and nil addresses.
C5_ClusterIffBasePathsMatch ==
    Compiled =>
        /\ peResult[1].cluster # Nil <=> AllBasePathsMatch
        /\ ~AllBasePathsMatch =>
              peResult[1].err # "" /\ peResult[1].cluster = Nil /\ peResult[1].addresses = Nil

\* C5 as amended: a cluster is returned if and only if every endpoint's trimmed
\* base path equals the expected one and every TLS context marshals; otherwise
\* an error is returned with a nil cluster and nil addresses.
C5_ClusterIffGroupCompiles ==
    Compiled =>
        /\ peResult[1].cluster # Nil <=> (AllBasePathsMatch /\ AllTLSContextsMarshal)
        /\ peResult[1].cluster # Nil =>
              /\ peResult[1].err = ""
              /\ Len(peResult[1].addresses) = Len(peArgs.clusterDetails.Endpoints)
        /\ peResult[1].cluster = Nil => peResult[1].err # "" /\ peResult[1].addresses = Nil

C5_Witness ==
    /\ Compiled
    /\ Len(peArgs.clusterDetails.Endpoints) = 2
    /\ peArgs.clusterDetails.Endpoints[1].Basepath = "/a/"
    /\ peArgs.clusterDetails.Endpoints[2].Basepath = "/a"
    /\ peArgs.basePath = "/a"
    /\ peResult[1].cluster # Nil

\* The groups of endpoints the model declares, at every level
DeclaredGroups ==
    LET Of(pointer) == {pointer[k] : k \in DOMAIN pointer}
    IN  Of(mgwSwagger.productionEndpoints) \cup Of(mgwSwagger.sandboxEndpoints)
        \cup {mgwSwagger.xWso2Endpoints[n] : n \in DOMAIN mgwSwagger.xWso2Endpoints}
        \cup UNION {Of(mgwSwagger.resources[k].productionEndpoints)
                        \cup Of(mgwSwagger.resources[k].sandboxEndpoints) :
                    k \in DOMAIN mgwSwagger.resources}

AllGroupsNonEmpty == \A g \in DeclaredGroups : Len(g.Endpoints) > 0

\* The parameters of the production routes, in route order
ProductionRouteParams == SelectSeq(routeParams, LAMBDA params : ~params.isSandbox)

\* The statements of the translation before its return, in program order
Statements ==
    <<"apiLevelProd", "apiLevelSand", "xWso2Endpoints", "apiRequestInterceptor",
      "apiResponseInterceptor", "resource", "resourceProd", "resourceSand", "reconcile",
      "resourceRequestInterceptor", "operationRequestInterceptors",
      "resourceResponseInterceptor", "operationResponseInterceptors", "emitRoutes">>

\* The translation is at a statement it can execute
HasNextStatement ==
    /\ \E k \in DOMAIN Statements : pc = Statements[k]
    /\ pc = "xWso2Endpoints" => pendingEps # {}
    /\ pc \in {"operationRequestInterceptors", "operationResponseInterceptors"} => pendingOps # {}
    /\ (\E k \in 6..Len(Statements) : pc = Statements[k]) => resIdx \in DOMAIN mgwSwagger.resources

\* What is left to execute: the resources not yet done, then the statements of
\* the current phase, then the entries of the map being ranged over
Remaining ==
    LET position == IF \E k \in DOMAIN Statements : pc = Statements[k]
                    THEN CHOOSE k \in DOMAIN Statements : pc = Statements[k]
                    ELSE Len(Statements) + 1
        resourcesLeft == IF position > Len(Statements) THEN 0
                         ELSE Len(mgwSwagger.resources) + 1 - resIdx
    IN  resourcesLeft * 100 + (Len(Statements) + 1 - position) * 5
        + Cardinality(pendingEps) + Cardinality(pendingOps)

\* The call has not failed and is not stuck, and when it has returned the
\* production routes are one per resource, in model order
OneProductionRoutePerResource ==
    (IsREST /\ AllGroupsNonEmpty) =>
        /\ pc # "panic"
        /\ ~Done => HasNextStatement
        /\ Done =>
              /\ Len(ProductionRouteParams) = Len(mgwSwagger.resources)
              /\ \A k \in DOMAIN mgwSwagger.resources :
                    /\ ProductionRouteParams[k].resourcePathParam = mgwSwagger.resources[k].path
                    /\ ProductionRouteParams[k].resourceMethods
                          = GetMethodList(mgwSwagger.resources[k])

\* C6: for a REST API whose endpoint groups are all non-empty the translation
\* always returns (it never fails, it is never stuck before its return, and
\* every step leaves less to execute), and the routes it returns hold exactly
\* one production route per resource, in model order.
C6_ReturnsOneProductionRoutePerResource ==
    /\ []OneProductionRoutePerResource
    /\ [][(IsREST /\ AllGroupsNonEmpty) => Remaining' < Remaining]_vars

C6_Witness ==
    /\ Done
    /\ IsREST
    /\ AllGroupsNonEmpty
    /\ Len(mgwSwagger.resources) = 2
    /\ Len(routes) = 3
    /\ ProductionRoutes = {1, 3}

\* The names of the clusters in the cluster list
ClusterNames == {clusters[k].Name : k \in DOMAIN clusters}

\* The cluster names the interceptor configuration of the route at index i calls out to
InterceptorClusterNames(i) ==
    {routes[i].RequestFlow[m].ClusterName : m \in DOMAIN routes[i].RequestFlow}
        \cup {routes[i].ResponseFlow[m].ClusterName : m \in DOMAIN routes[i].ResponseFlow}

\* C7: the cluster of an interceptor is appended before any route that
\* references it: every interceptor cluster name in the interceptor
\* configuration of a route is the name of a cluster in the cluster list.
C7_InterceptorClustersListed ==
    \A i \in DOMAIN routes : InterceptorClusterNames(i) \subseteq ClusterNames

\* What the claims take getClusterName to be injective on
ClaimTuple(a) ==
    <<a.organizationID, a.epPrefix, a.vHost, RemoveSpaces(a.swaggerTitle), a.swaggerVersion,
      a.resourceID>>

NoUnderscoreOrSpace(str) == ~Contains(str, "_") /\ ~Contains(str, " ")

\* Arguments whose underscores are the separators getClusterName writes
Separable(a) ==
    /\ NoUnderscoreOrSpace(a.organizationID)
    /\ NoUnderscoreOrSpace(a.epPrefix)
    /\ NoUnderscoreOrSpace(a.vHost)
    /\ NoUnderscoreOrSpace(a.swaggerVersion)
    /\ ~Contains(a.swaggerTitle, "_")

\* What a name determines of separable arguments
NameKey(a) ==
    <<a.organizationID, a.epPrefix, a.vHost, RemoveSpaces(a.swaggerTitle) \o a.swaggerVersion,
      RemoveSpaces(a.resourceID), a.resourceID = "">>

SameButResourceID == nameArgs[2] = [nameArgs[1] EXCEPT !.resourceID = nameArgs[2].resourceID]

\* C9 as stated: with the other arguments fixed, differing resourceIDs yield
\* differing names.
C9_ResourceIDsDistinguish ==
    (names # <<>> /\ SameButResourceID /\ nameArgs[1].resourceID # nameArgs[2].resourceID)
        => names[1] # names[2]

\* C9 as amended: with the other arguments fixed, two names differ exactly when
\* the resourceIDs differ after their spaces are removed or one of them is
\* empty and the other is not.
C9_ResourceIDsDistinguishUpToSpaces ==
    (names # <<>> /\ SameButResourceID) =>
        (names[1] = names[2] <=>
            /\ RemoveSpaces(nameArgs[1].resourceID) = RemoveSpaces(nameArgs[2].resourceID)
            /\ nameArgs[1].resourceID = "" <=> nameArgs[2].resourceID = "")

C9_Witness ==
    /\ names # <<>>
    /\ SameButResourceID
    /\ nameArgs[1].resourceID = "r"
    /\ nameArgs[2].resourceID = "r1"
    /\ names[1] # names[2]

\* C10: CreateRoutesWithClusters is deterministic: a second call with the same
\* arguments returns the routes, clusters and addresses of the first.
C10_Deterministic ==
    (Done /\ firstRun # Nil) =>
        [routes |-> routes, clusters |-> clusters, endpoints |-> endpoints] = firstRun[1]

\* C11: in every cluster processEndpoints builds from n endpoints, the i-th
\* locality endpoint (0-based, input order) has priority i when endpointType
\* starts with "failover" and priority 0 otherwise.
C11_FailoverPriorities ==
    (Compiled /\ peResult[1].cluster # Nil) =>
        LET lbEPs == peResult[1].cluster[1].Endpoints
            group == peArgs.clusterDetails
            failover == Len(group.EndpointType) >= 8 /\ SubSeq(group.EndpointType, 1, 8) = "failover"
        IN  /\ Len(lbEPs) = Len(group.Endpoints)
            /\ \A k \in DOMAIN lbEPs :
                  /\ lbEPs[k].Address.Address = group.Endpoints[k].Host
                  /\ lbEPs[k].Priority = IF failover THEN k - 1 ELSE 0

C11_Witness ==
    /\ Compiled
    /\ peResult[1].cluster # Nil
    /\ peArgs.clusterDetails.EndpointType = "failover_strict"
    /\ Len(peArgs.clusterDetails.Endpoints) = 2
    /\ peResult[1].cluster[1].Endpoints[2].Priority = 1

RECURSIVE NumberedPath(_, _)
\* The path with its parameter tokens replaced, left to right, by \k, \k+1, ...
NumberedPath(path, k) ==
    IF path = "" THEN ""
    ELSE IF SubSeq(path, 1, 1) = "{" /\ Index(path, "}") >= 2
    THEN "\\" \o Itoa(k) \o NumberedPath(SubSeq(path, Index(path, "}") + 2, Len(path)), k + 1)
    ELSE SubSeq(path, 1, 1) \o NumberedPath(SubSeq(path, 2, Len(path)), k)

RECURSIVE CountPathParams(_)
\* The number n of parameter tokens of a path
CountPathParams(path) ==
    IF path = "" THEN 0
    ELSE IF SubSeq(path, 1, 1) = "{" /\ Index(path, "}") >= 2
    THEN 1 + CountPathParams(SubSeq(path, Index(path, "}") + 2, Len(path)))
    ELSE CountPathParams(SubSeq(path, 2, Len(path)))

\* The resource path of a route without its query
PathOf(params) == SplitFirst(params.resourcePathParam, "?")

Rewritten == routeResult # <<>> /\ routeResult[1].Action.RegexRewrite # Nil

\* C12: with an empty rewritePath, the substitution string of a route is
\* endpointBasePath followed by the resource path in which the k-th parameter
\* token is replaced by \k, a trailing /* is removed and a trailing / is kept;
\* the numbering loop ends after exactly as many replacements as the path has
\* parameter tokens.
C12_SubstitutionNumbersParams ==
    (Rewritten /\ routeArgs.rewritePath = "") =>
        /\ routeResult[1].Action.RegexRewrite[1].Substitution =
              routeArgs.endpointBasePath \o TrimSuffix(NumberedPath(PathOf(routeArgs), 1), "/*")
        /\ NumberPathParams(generatePathRegexSegment(PathOf(routeArgs)), 0).pathParamIndex =
              CountPathParams(PathOf(routeArgs))

C12_Witness ==
    /\ Rewritten
    /\ routeArgs.rewritePath = ""
    /\ routeArgs.resourcePathParam = "/foo/{id}/{a}{b}/*"
    /\ routeResult[1].Action.RegexRewrite[1].Substitution = "/v3/foo/\\1/\\2\\3"

\* The string without the last occurrence of sub
RemoveLast(str, sub) ==
    IF ~Contains(str, sub) THEN str
    ELSE SubSeq(str, 1, LastIndex(str, sub)) \o
         SubSeq(str, LastIndex(str, sub) + Len(sub) + 1, Len(str))

\* The base path of the API of a route, normalised
FilteredBasePathOf(params) == TrimSuffix(params.xWSO2BasePath, "/")

\* C13: for a default version the base path of the route regex is
\* (?:basePath|context), where context is basePath without the last occurrence
\* of "/"+version: earlier occurrences stay, and a base path that is only
\* "/"+version loses it.
C13_VersionRemovedAtLastOccurrence ==
    (routeResult # <<>> /\ routeArgs.isDefaultVersion) =>
        routeResult[1].Regex =
            "^(?:" \o FilteredBasePathOf(routeArgs) \o "|"
                   \o RemoveLast(FilteredBasePathOf(routeArgs), "/" \o routeArgs.version) \o ")"
                   \o generatePathRegexSegment(routeArgs.resourcePathParam) \o endRegex \o "$"

\* a base path that ends in its only "/"+version loses it
C13_Witness ==
    /\ routeResult # <<>>
    /\ routeArgs.isDefaultVersion
    /\ routeArgs.xWSO2BasePath = "/foo/v2"
    /\ routeArgs.version = "v2"
    /\ routeResult[1].Regex = "^(?:/foo/v2|/foo)/pets1(/{0,1})(\\?([^/]+))?$"

\* a base path that is only "/"+version keeps it
C13_SoleVersionKept ==
    /\ routeResult # <<>>
    /\ routeArgs.isDefaultVersion
    /\ routeArgs.xWSO2BasePath = "/v2"
    /\ routeArgs.version = "v2"
    /\ routeResult[1].Regex = "^(?:/v2|/v2)/pets1(/{0,1})(\\?([^/]+))?$"

\* a base path with two occurrences loses both
C13_EarlierOccurrenceRemoved ==
    /\ routeResult # <<>>
    /\ routeArgs.isDefaultVersion
    /\ routeArgs.xWSO2BasePath = "/v2/foo/v2"
    /\ routeArgs.version = "v2"
    /\ routeResult[1].Regex = "^(?:/v2/foo/v2|/foo)/pets1(/{0,1})(\\?([^/]+))?$"

\* C14: every route of a websocket API has the websocket upgrade enabled, a
\* maximum stream duration of 86400 seconds, the method list GET (method regex
\* ^(GET|OPTIONS)$) and no interceptors, with or without an xWso2Basepath and
\* whatever methods the resource carries.
C14_WebsocketRoute ==
    (routeResult # <<>> /\ routeArgs.apiType = WS) =>
        /\ routeResult[1].Action.UpgradeConfigs = <<[UpgradeType |-> "websocket", Enabled |-> TRUE]>>
        /\ routeResult[1].Action.MaxStreamDuration = Some([Seconds |-> 86400])
        /\ routeResult[1].ContextExtensions.method = "GET"
        /\ \A k \in MethodMatchers : routeResult[1].Headers[k].Value = "^(GET|OPTIONS)$"
        /\ routeResult[1].RequestFlow = <<>>
        /\ routeResult[1].ResponseFlow = <<>>

\* a websocket route of an API with an xWso2Basepath and without a resource
C14_Witness ==
    /\ routeResult # <<>>
    /\ routeArgs.apiType = WS
    /\ routeArgs.xWSO2BasePath = "/api"
    /\ routeArgs.resourcePathParam = ""
    /\ routeResult[1].Action.UpgradeConfigs[1].Enabled
    /\ routeResult[1].Action.MaxStreamDuration = Some([Seconds |-> 86400])
    /\ routeResult[1].Headers[1].Value = "^(GET|OPTIONS)$"

\* a websocket route without upgrade configuration and stream duration
C14_BareWebsocketRoute ==
    /\ routeResult # <<>>
    /\ routeArgs.apiType = WS
    /\ routeArgs.xWSO2BasePath = ""
    /\ routeResult[1].Action.UpgradeConfigs = <<>>
    /\ routeResult[1].Action.MaxStreamDuration = Nil

\* a websocket route with the methods of its resource
C14_ResourceMethodsKept ==
    /\ routeResult # <<>>
    /\ routeArgs.apiType = WS
    /\ routeArgs.xWSO2BasePath = "/api"
    /\ routeArgs.resourceMethods = <<"POST">>
    /\ routeResult[1].Headers[1].Value = "^(POST|OPTIONS)$"

IsWS == mgwSwagger # <<>> /\ mgwSwagger.apiType = WS

\* The names getClusterName mints for the upstreams and interceptors of the
\* resources and operations of the API
ResourceScopedNames ==
    {getClusterName(prefix, organizationID, vHost, apiTitle, apiVersion, iD) :
        prefix \in {"clusterProd", "clusterSand", requestInterceptClustersNamePrefix,
                    responseInterceptClustersNamePrefix},
        iD \in UNION {{mgwSwagger.resources[k].iD}
                          \cup {mgwSwagger.resources[k].methods[j].iD :
                                   j \in DOMAIN mgwSwagger.resources[k].methods} :
                      k \in DOMAIN mgwSwagger.resources}}

\* C15: the translation of a websocket API returns exactly one route per
\* resource and no sandbox route; every route names the API-level production and
\* sandbox clusters with the API-level production base path, and no cluster of
\* a resource-level endpoint group or of a resource-level or operation-level
\* interceptor is in the cluster list.
C15_WebsocketRoutesUseApiLevel ==
    (IsWS /\ Done) =>
        /\ Len(routes) = Len(mgwSwagger.resources)
        /\ SandboxRoutes = {}
        /\ \A i \in DOMAIN routes :
              /\ routes[i].ContextExtensions.path = mgwSwagger.resources[i].path
              /\ routes[i].ContextExtensions.prodClusterName = apiLevelClusterNameProd
              /\ routes[i].ContextExtensions.sandClusterName = apiLevelClusterNameSand
              /\ routes[i].ContextExtensions.basePath = apiLevelBasePathProd
              /\ ClusterHeaderMatchers(i) = {}
              /\ InterceptorClusterNames(i) = {}
        /\ ClusterNames \cap ResourceScopedNames = {}
        /\ Available(mgwSwagger.productionEndpoints) =>
              apiLevelBasePathProd =
                  TrimSuffix(mgwSwagger.productionEndpoints[1].Endpoints[1].Basepath, "/")

\* a websocket API of two resources with upstreams and interceptors of their own
C15_Witness ==
    /\ IsWS
    /\ Done
    /\ Len(routes) = 2
    /\ mgwSwagger.resources[1].requestInterceptor # Nil
    /\ mgwSwagger.resources[2].productionEndpoints # Nil
    /\ mgwSwagger.sandboxEndpoints # Nil
    /\ routes[2].ContextExtensions.sandClusterName = "o_clusterSand_gw_petstorev1"
    /\ Len(clusters) = 3

\* The threads that are at the registry write
Writers == {t \in DOMAIN threads : threads[t].pc = "write"}

ClusterAddresses(cluster) == [j \in DOMAIN cluster.Endpoints |-> cluster.Endpoints[j].Address]

RECURSIVE AddressesOfClusters(_)
\* The addresses of the clusters of a list, cluster by cluster
AddressesOfClusters(cs) ==
    IF cs = <<>> THEN <<>> ELSE ClusterAddresses(Head(cs)) \o AddressesOfClusters(Tail(cs))

\* The interceptor services the model declares, at every level, as groups
DeclaredInterceptorGroups ==
    LET Of(pointer) == {<<pointer[k]>> : k \in DOMAIN pointer}
    IN  Of(mgwSwagger.requestInterceptor) \cup Of(mgwSwagger.responseInterceptor)
        \cup UNION {Of(mgwSwagger.resources[k].requestInterceptor)
                        \cup Of(mgwSwagger.resources[k].responseInterceptor)
                        \cup UNION {Of(mgwSwagger.resources[k].methods[j].requestInterceptor)
                                        \cup Of(mgwSwagger.resources[k].methods[j].responseInterceptor) :
                                    j \in DOMAIN mgwSwagger.resources[k].methods} :
                    k \in DOMAIN mgwSwagger.resources}

\* The endpoint lists whose endpoints agree on the base path and marshal
SoundEndpointLists ==
    {eps \in {g.Endpoints : g \in DeclaredGroups} \cup DeclaredInterceptorGroups :
        \A j \in DOMAIN eps :
            /\ TrimSuffix(eps[j].Basepath, "/") = TrimSuffix(eps[1].Basepath, "/")
            /\ ~(eps[j].URLType = "https" /\ eps[j].Host \in InvalidUTF8Hosts)}

\* No address and no registry entry without a cluster
EmittedTogether ==
    /\ endpoints = AddressesOfClusters(clusters)
    /\ DOMAIN ClusterConsulKeyMap \subseteq ClusterNames
    /\ \A k \in DOMAIN clusters :
          \E eps \in SoundEndpointLists :
              ClusterAddresses(clusters[k]) =
                  [j \in DOMAIN eps |-> [Address |-> eps[j].Host, PortValue |-> eps[j].Port]]

\* A step appends one cluster with its addresses and at most its registry
\* entry, or it leaves the three alone
AppendsTogether ==
    \/ UNCHANGED <<clusters, endpoints, ClusterConsulKeyMap>>
    \/ /\ Len(clusters') = Len(clusters) + 1
       /\ SubSeq(clusters', 1, Len(clusters)) = clusters
       /\ endpoints' = endpoints \o ClusterAddresses(clusters'[Len(clusters')])
       /\ \A k \in DOMAIN ClusterConsulKeyMap' :
             \/ k = clusters'[Len(clusters')].Name
             \/ k \in DOMAIN ClusterConsulKeyMap /\ ClusterConsulKeyMap'[k] = ClusterConsulKeyMap[k]

\* C17: the address list is the concatenation, in cluster emission order, of
\* the (host, port) of the endpoints of the emitted clusters, each group in
\* input order; a group whose compile fails contributes no cluster, no address
\* and no service-discovery registry entry.
C17_AddressesFollowClusters ==
    /\ [](mgwSwagger # <<>> => EmittedTogether)
    /\ [][AppendsTogether]_vars

\* the resource's production group, whose first endpoint has a discovery key,
\* failed to compile; the two API-level groups compiled
C17_Witness ==
    /\ Done
    /\ IsREST
    /\ mgwSwagger.productionEndpoints = Some(Group(<<epA>>, "clusterProd"))
    /\ mgwSwagger.sandboxEndpoints = Some(Group(<<epB>>, "clusterSand"))
    /\ Len(mgwSwagger.resources) = 1
    /\ mgwSwagger.resources[1].productionEndpoints = Some(Group(<<epA, epB>>, "clusterProd"))
    /\ Len(clusters) = 2
    /\ endpoints = <<[Address |-> "a.svc", PortValue |-> 80], [Address |-> "b.svc", PortValue |-> 80]>>
    /\ DOMAIN ClusterConsulKeyMap = {"o_clusterProd_gw_petstorev1"}

\* The interceptor service is declared and its cluster does not compile
FailsToCompile(declared) ==
    declared # Nil /\ declared[1].URLType = "https" /\ declared[1].Host \in InvalidUTF8Hosts

\* The interceptor service is declared and its cluster compiles
CompilesAsCluster(declared) == declared # Nil /\ ~FailsToCompile(declared)

\* The interceptor cluster name minted under the prefix for a resource or operation id
InterceptorName(prefix, iD) ==
    getClusterName(prefix, organizationID, vHost, apiTitle, apiVersion, iD)

\* The name a failed operation-level interceptor of the resource is to fall
\* back to: the resource-level one, or the API-level one when the resource has none
FallbackName(prefix, ofResource, ofApi, res) ==
    IF CompilesAsCluster(ofResource) THEN InterceptorName(prefix, res.iD)
    ELSE InterceptorName(prefix, "")

\* The resource the route at index i was built for
ResourceOfRoute(i) ==
    mgwSwagger.resources[CHOOSE k \in DOMAIN mgwSwagger.resources :
                            mgwSwagger.resources[k].path = routeParams[i].resourcePathParam]

\* C18: when the cluster of an operation-level interceptor fails to compile,
\* the route is still emitted and the record of that method in it is the
\* resource-level interceptor, or the API-level one when the resource has
\* none; no cluster has the failed interceptor's name, and the route
\* references only interceptor clusters that are in the cluster list.
C18_FailedOperationFallsBack ==
    (Done /\ IsREST) =>
        /\ Len(ProductionRouteParams) = Len(mgwSwagger.resources)
        /\ \A i \in DOMAIN routes :
              LET res == ResourceOfRoute(i) IN
              \A j \in DOMAIN res.methods :
                  /\ FailsToCompile(res.methods[j].requestInterceptor) =>
                        /\ res.methods[j].method \in DOMAIN routes[i].RequestFlow
                        /\ routes[i].RequestFlow[res.methods[j].method].ClusterName =
                              FallbackName(requestInterceptClustersNamePrefix,
                                           res.requestInterceptor, mgwSwagger.requestInterceptor, res)
                        /\ InterceptorName(requestInterceptClustersNamePrefix, res.methods[j].iD)
                              \notin ClusterNames
                        /\ InterceptorClusterNames(i) \subseteq ClusterNames
                  /\ FailsToCompile(res.methods[j].responseInterceptor) =>
                        /\ res.methods[j].method \in DOMAIN routes[i].ResponseFlow
                        /\ routes[i].ResponseFlow[res.methods[j].method].ClusterName =
                              FallbackName(responseInterceptClustersNamePrefix,
                                           res.responseInterceptor, mgwSwagger.responseInterceptor, res)
                        /\ InterceptorName(responseInterceptClustersNamePrefix, res.methods[j].iD)
                              \notin ClusterNames
                        /\ InterceptorClusterNames(i) \subseteq ClusterNames

\* the failed interceptor of GET fell back to the resource-level interceptor
C18_Witness ==
    /\ Done
    /\ IsREST
    /\ Len(routes) = 1
    /\ FailsToCompile(mgwSwagger.resources[1].methods[1].requestInterceptor)
    /\ CompilesAsCluster(mgwSwagger.resources[1].requestInterceptor)
    /\ routes[1].RequestFlow["GET"].ClusterName = "o_reqInterceptor_gw_petstorev1_r10"
    /\ "o_reqInterceptor_gw_petstorev1_r10" \in ClusterNames

\* the failed interceptor of GET fell back to a record without a cluster
C18_FallbackWithoutCluster ==
    /\ Done
    /\ IsREST
    /\ Len(routes) = 1
    /\ FailsToCompile(mgwSwagger.resources[1].methods[1].requestInterceptor)
    /\ mgwSwagger.resources[1].requestInterceptor = Nil
    /\ mgwSwagger.requestInterceptor = Nil
    /\ "GET" \in DOMAIN routes[1].RequestFlow
    /\ routes[1].RequestFlow["GET"].ClusterName = ""

\* The resource declares no production and no sandbox endpoints of its own
Inherits(res) == ~Available(res.productionEndpoints) /\ ~Available(res.sandboxEndpoints)

\* The base path of the API-level sandbox group where it is a separate one,
\* the API-level production base path otherwise
ApiSandboxBasePath ==
    IF /\ Available(mgwSwagger.sandboxEndpoints)
       /\ TrimSuffix(mgwSwagger.sandboxEndpoints[1].Endpoints[1].Basepath, "/") # apiLevelBasePathProd
    THEN TrimSuffix(mgwSwagger.sandboxEndpoints[1].Endpoints[1].Basepath, "/")
    ELSE apiLevelBasePathProd

C20_SandboxRouteNeedsSandboxGroup ==
    IsREST =>
        \A i \in SandboxRoutes :
            \/ Available(mgwSwagger.sandboxEndpoints)
            \/ Available(ResourceOfRoute(i).sandboxEndpoints)

\* a sandbox route of a resource with a sandbox group of its own
C20_Witness ==
    /\ Done
    /\ IsREST
    /\ ~Available(mgwSwagger.sandboxEndpoints)
    /\ Len(mgwSwagger.resources) = 1
    /\ Available(mgwSwagger.resources[1].sandboxEndpoints)
    /\ SandboxRoutes = {1}
    /\ routes[1].ContextExtensions.sandClusterName = "o_clusterSand_gw_petstorev1_r10"

\* sandbox routes without a sandbox group at any level: of the resource with a
\* production group of its own and of the resource after it
C20_SandboxRouteWithoutGroup ==
    /\ Done
    /\ IsREST
    /\ ~Available(mgwSwagger.sandboxEndpoints)
    /\ mgwSwagger.xWso2Endpoints = <<>>
    /\ Len(mgwSwagger.resources) = 2
    /\ \A k \in DOMAIN mgwSwagger.resources : ~Available(mgwSwagger.resources[k].sandboxEndpoints)
    /\ Available(mgwSwagger.resources[1].productionEndpoints)
    /\ Inherits(mgwSwagger.resources[2])
    /\ SandboxRoutes = {1, 3}
    /\ routes[3].ContextExtensions.sandClusterName = ""


\* The statements of one iteration of the resource loop of a REST API
InResourceLoop ==
    pc \in {"resource", "resourceProd", "resourceSand", "reconcile", "resourceRequestInterceptor",
            "operationRequestInterceptors", "resourceResponseInterceptor",
            "operationResponseInterceptors", "emitRoutes"}

\* C21: no statement of the resource loop changes apiLevelBasePathProd,
\* apiLevelBasePathSand, apiLevelClusterNameProd, apiLevelClusterNameSand or
\* strictBasePath: the API-level state a resource is processed under is the one
\* the API-level steps left, whatever resources precede it.
C21_LoopKeepsApiLevelState ==
    [][InResourceLoop =>
          UNCHANGED <<apiLevelBasePathProd, apiLevelBasePathSand, apiLevelClusterNameProd,
                      apiLevelClusterNameSand, strictBasePath>>]_vars

\* the production base path, both cluster names and the strict flag kept
\* through a whole iteration of the loop
C21_Witness ==
    /\ Done
    /\ IsREST
    /\ Len(mgwSwagger.resources) = 2
    /\ Available(mgwSwagger.resources[1].productionEndpoints)
    /\ apiLevelBasePathProd = "/a"
    /\ apiLevelClusterNameProd = "o_clusterProd_gw_petstorev1"
    /\ strictBasePath

\* the API-level sandbox base path written for a resource with a production
\* group of its own, under an API without a sandbox group
C21_SandboxBasePathWritten ==
    /\ pc = "resourceRequestInterceptor"
    /\ resIdx = 1
    /\ ~Available(mgwSwagger.sandboxEndpoints)
    /\ Available(resource.productionEndpoints)
    /\ ~Available(resource.sandboxEndpoints)
    /\ apiLevelBasePathSand = "/a"


\* The compile of a resource-level group is attempted and returns an error:
\* the group has endpoints, its prefix does not carry the named-endpoints
\* marker, and it does not compile against the base path the resource holds
\* (its own first endpoint's when the resource holds none).
ResourceCompileFails(group, held) ==
    /\ Available(group)
    /\ ~Contains(group[1].EndpointPrefix, xWso2EPClustersConfigNamePrefix)
    /\ processEndpoints("", group[1], upstreamCerts, timeout,
                        IF held = "" THEN TrimSuffix(group[1].Endpoints[1].Basepath, "/")
                        ELSE held).err # ""

\* the production half: cluster name and base path as before the attempt, no cluster added
ProductionReverted ==
    (pc = "resourceProd" /\ ResourceCompileFails(resource.productionEndpoints, resourceBasePath)) =>
        /\ clusterNameProd' = clusterNameProd
        /\ resourceBasePath' = resourceBasePath
        /\ clusters' = clusters

\* the sandbox half, by the same rule
SandboxReverted ==
    (pc = "resourceSand" /\ ResourceCompileFails(resource.sandboxEndpoints, resourceBasePathSand)) =>
        /\ clusterNameSand' = clusterNameSand
        /\ resourceBasePathSand' = resourceBasePathSand
        /\ clusters' = clusters

\* C22: a failed compile of a resource-level production or sandbox group
\* leaves the cluster name and the resource base path of that kind as they
\* were immediately before the attempt, and adds no cluster.
C22_FailedCompileReverts ==
    [][ProductionReverted /\ SandboxReverted]_vars

\* the production half alone
C22_ProductionReverts ==
    [][ProductionReverted]_vars

\* a resource whose sandbox group failed to compile holds the API-level
\* production base path as its sandbox base path, where it held none before
C22_SandboxBasePathNotReverted ==
    /\ pc = "reconcile"
    /\ ~strictBasePath
    /\ ResourceCompileFails(resource.sandboxEndpoints, "")
    /\ clusterNameSand = apiLevelClusterNameSand
    /\ resourceBasePathSand = "/a"

\* a resource whose production group failed to compile holds no base path, as before
C22_ProductionBasePathReverted ==
    /\ pc = "resourceSand"
    /\ ~strictBasePath
    /\ ResourceCompileFails(resource.productionEndpoints, "")
    /\ clusterNameProd = apiLevelClusterNameProd
    /\ resourceBasePath = ""


\* The production and sandbox cluster names the route at index i records,
\* without the empty one
RecordedClusterNames(i) ==
    {routes[i].ContextExtensions.prodClusterName, routes[i].ContextExtensions.sandClusterName}
        \ {""}

\* C23: in the returned configuration every non-empty production or sandbox
\* cluster name recorded in the context extensions of a route is the name of a
\* cluster in the returned cluster list.
C23_RecordedClustersListed ==
    Done => \A i \in DOMAIN routes : RecordedClusterNames(i) \subseteq ClusterNames

\* a resource that refers to a named endpoint group that compiled: the route
\* records the name of the group's cluster, which is listed
C23_Witness ==
    /\ Done
    /\ IsREST
    /\ mgwSwagger.xWso2Endpoints = NamedAB
    /\ Len(routes) = 1
    /\ routes[1].ContextExtensions.prodClusterName = "o_xwso2cluster_n1_gw_petstorev1"
    /\ RecordedClusterNames(1) \subseteq ClusterNames

\* a resource that refers to a named endpoint group that failed to compile:
\* the route records the name of a cluster that is not listed
C23_RecordedClusterMissing ==
    /\ Done
    /\ IsREST
    /\ mgwSwagger.xWso2Endpoints = NamedAB
    /\ Len(routes) = 1
    /\ routes[1].ContextExtensions.prodClusterName = "o_xwso2cluster_n2_gw_petstorev1"
    /\ "o_xwso2cluster_n2_gw_petstorev1" \notin ClusterNames


\* The normalized base path of the first endpoint of a group that has endpoints
FirstBasePath(group) == TrimSuffix(group[1].Endpoints[1].Basepath, "/")

\* API-level production and sandbox groups both exist and the normalized base
\* paths of their first endpoints differ
ApiBasePathsDiffer ==
    /\ Available(mgwSwagger.productionEndpoints)
    /\ Available(mgwSwagger.sandboxEndpoints)
    /\ FirstBasePath(mgwSwagger.productionEndpoints) # FirstBasePath(mgwSwagger.sandboxEndpoints)

\* What the API-level sandbox step leaves: a separate sandbox base path exactly
\* when the base paths differ, and then the sandbox group's, against which the
\* sandbox cluster is compiled where it is compiled in place; without a
\* production group the sandbox base
\* path as the API base path; the production base path kept otherwise
SandboxStepEstablishes ==
    pc = "apiLevelSand" =>
        /\ (apiLevelBasePathSand' # "") <=> ApiBasePathsDiffer
        /\ ApiBasePathsDiffer =>
              /\ apiLevelBasePathSand' = FirstBasePath(mgwSwagger.sandboxEndpoints)
              /\ ~Contains(mgwSwagger.sandboxEndpoints[1].EndpointPrefix,
                            xWso2EPClustersConfigNamePrefix) =>
                    (apiLevelClusterNameSand' \in {clusters'[k].Name : k \in DOMAIN clusters'})
                    <=> processEndpoints("", mgwSwagger.sandboxEndpoints[1], upstreamCerts, timeout,
                                         FirstBasePath(mgwSwagger.sandboxEndpoints)).err = ""
        /\ (Available(mgwSwagger.sandboxEndpoints) /\ ~Available(mgwSwagger.productionEndpoints)) =>
              apiLevelBasePathProd' = FirstBasePath(mgwSwagger.sandboxEndpoints)
        /\ Available(mgwSwagger.productionEndpoints) =>
              apiLevelBasePathProd' = FirstBasePath(mgwSwagger.productionEndpoints)

\* Every resource without endpoints of its own has a sandbox route on the
\* separate sandbox base path
SandboxRoutesOnSandboxBasePath ==
    \A k \in DOMAIN mgwSwagger.resources :
        Inherits(mgwSwagger.resources[k]) =>
            \E i \in SandboxRoutes :
                /\ routeParams[i].resourcePathParam = mgwSwagger.resources[k].path
                /\ routeParams[i].endpointBasePath = FirstBasePath(mgwSwagger.sandboxEndpoints)

\* C24: the API-level steps establish a separate sandbox base path exactly
\* when API-level production and sandbox groups both exist and the normalized
\* base paths of their first endpoints differ, an empty sandbox base path
\* included; it is the one the sandbox cluster is compiled against and the
\* sandbox routes use.  When the two are equal the production base path is
\* reused; without a production group the sandbox base path is the API's.
C24_SeparateSandboxBasePath ==
    /\ [][SandboxStepEstablishes]_vars
    /\ []((Done /\ IsREST /\ ApiBasePathsDiffer) => SandboxRoutesOnSandboxBasePath)

\* the same for APIs whose sandbox group is not at the root
C24_NonEmptySandboxBasePath ==
    /\ [][(Available(mgwSwagger.sandboxEndpoints)
             /\ FirstBasePath(mgwSwagger.sandboxEndpoints) # "") => SandboxStepEstablishes]_vars
    /\ []((Done /\ IsREST /\ ApiBasePathsDiffer
             /\ FirstBasePath(mgwSwagger.sandboxEndpoints) # "") => SandboxRoutesOnSandboxBasePath)

\* production on /a and sandbox on /b: the sandbox route of an inheriting resource is on /b
C24_Witness ==
    /\ Done
    /\ IsREST
    /\ ApiBasePathsDiffer
    /\ apiLevelBasePathSand = "/b"
    /\ Len(mgwSwagger.resources) = 1
    /\ Inherits(mgwSwagger.resources[1])
    /\ SandboxRoutes = {1}
    /\ routeParams[1].endpointBasePath = "/b"

\* production on /a and sandbox at the root: no separate sandbox base path
\* and no sandbox route, though the sandbox cluster is listed
C24_RootSandboxNotSeparate ==
    /\ Done
    /\ IsREST
    /\ ApiBasePathsDiffer
    /\ FirstBasePath(mgwSwagger.sandboxEndpoints) = ""
    /\ Inherits(mgwSwagger.resources[1])
    /\ apiLevelBasePathSand = ""
    /\ apiLevelClusterNameSand \in ClusterNames
    /\ SandboxRoutes = {}


\* The cluster name a resource-level production group compiled in place gets
OwnProdClusterName(res) ==
    getClusterName(res.productionEndpoints[1].EndpointPrefix, organizationID, vHost, apiTitle,
                   apiVersion, res.iD)

\* Every production route is on the API-level production base path, and no
\* resource-level production group on another base path has a cluster
StrictBasePathKept ==
    /\ \A i \in ProductionRoutes : routeParams[i].endpointBasePath = apiLevelBasePathProd
    /\ \A k \in DOMAIN mgwSwagger.resources :
          LET res == mgwSwagger.resources[k] IN
          (/\ Available(res.productionEndpoints)
           /\ FirstBasePath(res.productionEndpoints) # apiLevelBasePathProd) =>
              OwnProdClusterName(res) \notin ClusterNames

\* C25: once a named endpoint group has compiled, the production route of
\* every resource has the API-level production base path as its endpoint base
\* path, also for a resource with production endpoints of its own; a
\* resource-level production group on another base path fails to compile.
C25_StrictBasePath ==
    (Done /\ IsREST /\ strictBasePath) => StrictBasePathKept

\* the same for APIs whose API-level production base path is not empty
C25_StrictNonEmptyBasePath ==
    (Done /\ IsREST /\ strictBasePath /\ apiLevelBasePathProd # "") => StrictBasePathKept

\* a resource with a production group of its own on /b under a named group
\* compiled on /a: the group has no cluster and the route is on /a
C25_Witness ==
    /\ Done
    /\ IsREST
    /\ strictBasePath
    /\ apiLevelBasePathProd = "/a"
    /\ Len(mgwSwagger.resources) = 1
    /\ Available(mgwSwagger.resources[1].productionEndpoints)
    /\ FirstBasePath(mgwSwagger.resources[1].productionEndpoints) = "/b"
    /\ mgwSwagger.resources[1].productionEndpoints[1].EndpointPrefix = "clusterProd"
    /\ OwnProdClusterName(mgwSwagger.resources[1]) \notin ClusterNames
    /\ \A i \in ProductionRoutes : routeParams[i].endpointBasePath = "/a"

\* a named group compiled at the root: the resource's production group on /b
\* has a cluster and the production route is on /b
C25_OwnBasePathUnderStrict ==
    /\ Done
    /\ IsREST
    /\ strictBasePath
    /\ apiLevelBasePathProd = ""
    /\ Len(mgwSwagger.resources) = 1
    /\ Available(mgwSwagger.resources[1].productionEndpoints)
    /\ OwnProdClusterName(mgwSwagger.resources[1]) \in ClusterNames
    /\ \E i \in ProductionRoutes : routeParams[i].endpointBasePath = "/b"


\* The route carries no request interceptor, no response interceptor
NoRequestInterceptor == DOMAIN routeArgs.requestInterceptor = {}

NoResponseInterceptor == DOMAIN routeArgs.responseInterceptor = {}

\* C26: the Lua override of the route is "disabled" if and only if the route
\* has no request interceptor, no response interceptor and wire logging is
\* off; without interceptors and with wire logging on it is the inline wire
\* log script; with an interceptor it is the inline interceptor script, whose
\* request half is enabled iff the request interceptor map is not empty and
\* whose response half is enabled iff the response interceptor map is not.
C26_LuaOverride ==
    routeResult # <<>> =>
        LET lua == routeResult[1].Lua IN
        /\ (lua.Override = "Disabled")
              <=> (NoRequestInterceptor /\ NoResponseInterceptor /\ ~logConf.WireLogs.Enable)
        /\ (NoRequestInterceptor /\ NoResponseInterceptor /\ logConf.WireLogs.Enable) =>
              /\ lua.Override = "SourceCode"
              /\ lua.InlineString.template = "wireLog"
        /\ ~(NoRequestInterceptor /\ NoResponseInterceptor) =>
              /\ lua.Override = "SourceCode"
              /\ lua.InlineString.template = "interceptor"
              /\ lua.InlineString.IsRequestFlowEnabled <=> ~NoRequestInterceptor
              /\ lua.InlineString.IsResponseFlowEnabled <=> ~NoResponseInterceptor

\* a route with a response interceptor only, wire logging on: the interceptor
\* script with the response half alone
C26_Witness ==
    /\ routeResult # <<>>
    /\ NoRequestInterceptor
    /\ ~NoResponseInterceptor
    /\ logConf.WireLogs.Enable
    /\ routeResult[1].Lua.Override = "SourceCode"
    /\ routeResult[1].Lua.InlineString.template = "interceptor"
    /\ ~routeResult[1].Lua.InlineString.IsRequestFlowEnabled
    /\ routeResult[1].Lua.InlineString.IsResponseFlowEnabled


(***************************************************************************)
(* Trust material and transport socket matches of a compiled cluster       *)
(***************************************************************************)

\* The TLS-bearing endpoints of the compiled group, by position
TLSPositions == {k \in DOMAIN peArgs.clusterDetails.Endpoints :
                    LET urlType == peArgs.clusterDetails.Endpoints[k].URLType
                    IN  HasPrefix(urlType, "https") \/ HasPrefix(urlType, "wss")}

\* The matches of the compiled cluster keyed by the lb_id of position k
MatchesOf(k) ==
    LET matches == peResult[1].cluster[1].TransportSocketMatches
    IN  {j \in DOMAIN matches : matches[j].LbID = Itoa(k - 1)}

HasBytes(certs, key) == key \in DOMAIN certs /\ Len(certs[key]) > 0

\* The trusted CA the stated order of preference selects for position k
StatedTrustedCa(k) ==
    LET certs == peArgs.upstreamCerts
        rawURL == peArgs.clusterDetails.Endpoints[k].RawURL
    IN  IF HasBytes(certs, rawURL) THEN [InlineBytes |-> certs[rawURL]]
        ELSE IF HasBytes(certs, "default") THEN [InlineBytes |-> certs["default"]]
        ELSE [Filename |-> conf.Envoy.Upstream.TLS.TrustedCertPath]

TrustedCaAsStated(k) ==
    \A j \in MatchesOf(k) :
        LET context == peResult[1].cluster[1].TransportSocketMatches[j].TransportSocket
        IN  IF conf.Envoy.Upstream.TLS.DisableSslVerification
            THEN context.ValidationContext = Nil
            ELSE context.ValidationContext = Some([TrustedCa |-> StatedTrustedCa(k)])

\* C27: for a TLS-bearing endpoint with verification enabled the trusted CA
\* is the inline bytes under the endpoint's raw URL when such bytes are
\* present, else the inline bytes under "default" when present (also when the
\* raw-URL key exists but holds no bytes), else the configured trusted-CA
\* file path; with verification disabled no validation context is set.
C27_TrustedCaChoice ==
    (Compiled /\ peResult[1].cluster # Nil) =>
        \A k \in TLSPositions : MatchesOf(k) # {} /\ TrustedCaAsStated(k)

\* The same order of preference where the raw-URL key, when it exists,
\* holds bytes
C27_TrustedCaChoiceWithBytes ==
    (/\ Compiled
     /\ peResult[1].cluster # Nil
     /\ \A k \in TLSPositions :
           LET rawURL == peArgs.clusterDetails.Endpoints[k].RawURL
           IN  rawURL \in DOMAIN peArgs.upstreamCerts => HasBytes(peArgs.upstreamCerts, rawURL))
        => \A k \in TLSPositions : MatchesOf(k) # {} /\ TrustedCaAsStated(k)

C27_Witness ==
    /\ Compiled
    /\ peResult[1].cluster # Nil
    /\ ~conf.Envoy.Upstream.TLS.DisableSslVerification
    /\ \E k \in TLSPositions :
          /\ ~HasBytes(peArgs.upstreamCerts, peArgs.clusterDetails.Endpoints[k].RawURL)
          /\ HasBytes(peArgs.upstreamCerts, "default")
          /\ TrustedCaAsStated(k)
          /\ MatchesOf(k) # {}

\* A raw-URL key without bytes next to a "default" key with bytes: the
\* compiled context names the trusted-CA file
C27_EmptyRawKeyUsesFile ==
    /\ Compiled
    /\ peResult[1].cluster # Nil
    /\ ~conf.Envoy.Upstream.TLS.DisableSslVerification
    /\ \E k \in TLSPositions :
          /\ peArgs.clusterDetails.Endpoints[k].RawURL \in DOMAIN peArgs.upstreamCerts
          /\ ~HasBytes(peArgs.upstreamCerts, peArgs.clusterDetails.Endpoints[k].RawURL)
          /\ HasBytes(peArgs.upstreamCerts, "default")
          /\ \E j \in MatchesOf(k) :
                peResult[1].cluster[1].TransportSocketMatches[j].TransportSocket.ValidationContext
                    = Some([TrustedCa |-> [Filename |-> conf.Envoy.Upstream.TLS.TrustedCertPath]])

\* C28: in every compiled cluster the transport socket matches correspond
\* one-to-one to the TLS-bearing endpoints: the endpoint at input index i has
\* a match named ts<i> keyed lb_id = "i" and metadata selecting lb_id = "i";
\* a plaintext endpoint has no match and no metadata, so a fully plaintext
\* group has an empty match list.
C28_MatchesOneToOne ==
    (Compiled /\ peResult[1].cluster # Nil) =>
        LET cluster == peResult[1].cluster[1]
            matches == cluster.TransportSocketMatches
        IN  /\ Len(matches) = Cardinality(TLSPositions)
            /\ \A k \in DOMAIN peArgs.clusterDetails.Endpoints :
                  IF k \in TLSPositions
                  THEN /\ Cardinality(MatchesOf(k)) = 1
                       /\ \A j \in MatchesOf(k) : matches[j].Name = "ts" \o Itoa(k - 1)
                       /\ cluster.Endpoints[k].Metadata = Some(Itoa(k - 1))
                  ELSE /\ MatchesOf(k) = {}
                       /\ cluster.Endpoints[k].Metadata = Nil
            /\ (TLSPositions = {} => matches = <<>>)

\* A plaintext endpoint ahead of a wss endpoint: the one match is ts1
C28_Witness ==
    /\ Compiled
    /\ peResult[1].cluster # Nil
    /\ Len(peArgs.clusterDetails.Endpoints) = 2
    /\ peArgs.clusterDetails.Endpoints[1].URLType = "ws"
    /\ peArgs.clusterDetails.Endpoints[2].URLType = "wss"
    /\ Len(peResult[1].cluster[1].TransportSocketMatches) = 1
    /\ peResult[1].cluster[1].TransportSocketMatches[1].Name = "ts1"
    /\ peResult[1].cluster[1].Endpoints[1].Metadata = Nil
    /\ peResult[1].cluster[1].Endpoints[2].Metadata = Some("1")


(***************************************************************************)
(* The retry policy of a route                                             *)
(***************************************************************************)

\* The API-level production or sandbox endpoint config declares a retry config
RetryDeclared ==
    \/ (routeArgs.prodRouteConfig # Nil /\ routeArgs.prodRouteConfig[1].RetryConfig # Nil)
    \/ (routeArgs.sandRouteConfig # Nil /\ routeArgs.sandRouteConfig[1].RetryConfig # Nil)

\* The base interval of the policy read as a duration, in nanoseconds
BaseIntervalNanos ==
    LET interval == routeResult[1].Action.RetryPolicy[1].RetryBackOff.BaseInterval
    IN  interval.Seconds * 1000000000 + interval.Nanos

\* The configured milliseconds fit an int32 when written in nanoseconds
MillisFitInt32 == conf.Envoy.Upstream.Retry.BaseIntervalInMillis <= 2147483647 \div 1000000

\* C29: when the API-level production or sandbox endpoint config declares a
\* retry config the route carries a retry policy with numRetries = 0 whose
\* back-off base interval, read as a duration, equals the configured
\* BaseIntervalInMillis in milliseconds (for every value representable without
\* 32-bit overflow); otherwise the route carries no retry policy.
C29_RetryPolicy ==
    (routeResult # <<>> /\ routeArgs \in RetryParams) =>
        IF RetryDeclared
        THEN /\ routeResult[1].Action.RetryPolicy # Nil
             /\ routeResult[1].Action.RetryPolicy[1].NumRetries = 0
             /\ MillisFitInt32 =>
                   BaseIntervalNanos = conf.Envoy.Upstream.Retry.BaseIntervalInMillis * 1000000
        ELSE routeResult[1].Action.RetryPolicy = Nil

\* What the routes carry: the policy is there exactly when a retry config is
\* declared, numRetries is 0, and the base interval is the configured number
\* taken as microseconds
C29_BaseIntervalInMicroseconds ==
    (routeResult # <<>> /\ routeArgs \in RetryParams) =>
        IF RetryDeclared
        THEN /\ routeResult[1].Action.RetryPolicy # Nil
             /\ routeResult[1].Action.RetryPolicy[1].NumRetries = 0
             /\ conf.Envoy.Upstream.Retry.BaseIntervalInMillis <= 2147483647 \div 1000 =>
                   BaseIntervalNanos = conf.Envoy.Upstream.Retry.BaseIntervalInMillis * 1000
        ELSE routeResult[1].Action.RetryPolicy = Nil

\* A configured 25 ms comes out as 25,000 ns
C29_Witness ==
    /\ routeResult # <<>>
    /\ routeArgs \in RetryParams
    /\ RetryDeclared
    /\ conf.Envoy.Upstream.Retry.BaseIntervalInMillis = 25
    /\ BaseIntervalNanos = 25000

\* The multiplication of line 1068 leaves the int32 range
C29_Overflow ==
    /\ routeResult # <<>>
    /\ routeArgs \in RetryParams
    /\ RetryDeclared
    /\ conf.Envoy.Upstream.Retry.BaseIntervalInMillis = 2147484
    /\ BaseIntervalNanos < 0


(***************************************************************************)
(* A group compiled against the base path of its own endpoint              *)
(***************************************************************************)

\* The base path the call hands to processEndpoints as the expected one
OwnBasePath ==
    IF peArgs.call = "CreateLuaCluster"
    THEN peArgs.endpoint.EndpointCluster.Endpoints[1].Basepath
    ELSE Property(conf.Tracing.ConfigProperties, "endpoint")

\* The port property is a base-10 unsigned number of at most 32 bits
PortIsUint32 ==
    LET port == Property(conf.Tracing.ConfigProperties, "port")
    IN  /\ DigitsOnly(port)
        /\ \/ Len(Significant(port)) < 10
           \/ Len(Significant(port)) = 10 /\ DigitsLeq(Significant(port), "4294967295")

TracingInputInvalid ==
    \/ Property(conf.Tracing.ConfigProperties, "host") = ""
    \/ Property(conf.Tracing.ConfigProperties, "endpoint") = ""
    \/ ~PortIsUint32

\* C30: a single-endpoint group compiled with its own endpoint's base path as
\* the expected base path (CreateLuaCluster, CreateTracingCluster) never
\* fails the base-path coherence check, whatever the base path is, including
\* one that ends with a trailing slash; CreateTracingCluster therefore fails
\* only for an empty host, an empty endpoint path or a port that is not a
\* base-10 unsigned 32-bit number.
C30_OwnBasePathCoherent ==
    peResult # <<>> =>
        /\ peResult[1].err # "endpoint basepath mismatched"
        /\ peArgs.call = "CreateTracingCluster" =>
              (peResult[1].kind = "error" <=> TracingInputInvalid)

\* The same for base paths that do not end with a slash
C30_OwnBasePathWithoutSlash ==
    (peResult # <<>> /\ ~HasSuffix(OwnBasePath, "/")) =>
        /\ peResult[1].err # "endpoint basepath mismatched"
        /\ peArgs.call = "CreateTracingCluster" =>
              (peResult[1].kind = "error" <=> TracingInputInvalid)

\* A tracing cluster compiled on a path without a trailing slash
C30_Witness ==
    /\ peResult # <<>>
    /\ peArgs.call = "CreateTracingCluster"
    /\ OwnBasePath = "/api/v2/spans"
    /\ peResult[1].kind = "ok"
    /\ peResult[1].cluster[1].Name = "tracing_cluster"

\* An interceptor cluster whose endpoint's base path ends with a slash fails
\* the check against that very base path
C30_LuaTrailingSlashFails ==
    /\ peResult # <<>>
    /\ peArgs.call = "CreateLuaCluster"
    /\ OwnBasePath = "/a/"
    /\ peResult[1].err = "endpoint basepath mismatched"

\* A tracing cluster with a valid host and port fails on the path "/"
C30_TracingTrailingSlashFails ==
    /\ peResult # <<>>
    /\ peArgs.call = "CreateTracingCluster"
    /\ ~TracingInputInvalid
    /\ HasSuffix(OwnBasePath, "/")
    /\ peResult[1].err = "endpoint basepath mismatched"

====
